---------------------------- MODULE Spec2Model ----------------------------
(***************************************************************************)
(* A model of the G-CodeAnalyzer back end: the code parser (language       *)
(* detection, AI extraction with regex fallback) and the graph ingestor    *)
(* (Cypher MERGE of files, entities, imports and relationships).           *)
(*                                                                         *)
(* A text is a TLA+ string, read character by character (Len, SubSeq,     *)
(* Head, Tail and \o apply to strings), so that the regular expressions,   *)
(* str methods and Cypher string predicates of the code are computed on    *)
(* the characters, as the code computes them.                              *)
(***************************************************************************)
EXTENDS Integers, Sequences, FiniteSets, TLC

VARIABLES
    pc,             \* where parse_content is: "idle", "ai_call" or "done"
    file_path,      \* parse_content's file_path argument
    content,        \* parse_content's content argument
    language,       \* the language detect_language returned
    model_response, \* what the generative model answered
    ai_out,         \* what extract_with_ai returned
    result,         \* what parse_content returned
    call,           \* the direct call of a function of the parser
    detected,       \* what detect_language returned to it
    extracted,      \* what extract_with_regex returned to it
    graph,          \* the nodes and edges of the graph store
    record,         \* the parsed-file record being ingested
    phase,          \* "idle"; the "first" ingestion of the record runs, or
                    \* it was ingested "once"; the "second" runs, or it was
                    \* ingested "twice"
    ingestion,      \* the run of ingest_data_to_neo4j on the record
    other,          \* the run of another invocation of the function
    clearing,       \* where clear_database is: "idle", or at its delete of
                    \* the "nodes"
    interferences,  \* how many other invocations and clear_database calls
                    \* there have been
    once,           \* the graph as the first ingestion of the record left it
    queries,        \* the queries the last ingestion ran
    embedded,       \* the texts it requested an embedding for
    ingest_raised,  \* whether the last ingestion raised
    rounds,         \* how many operations on the store there have been
    request,        \* the chat request being answered
    retrieval,      \* the retrieval of its context: see Retrieval
    store,          \* the graph store two ingestions share
    workers         \* the run of ingest_data_to_neo4j of each of the two

parserVars ==
    <<pc, file_path, content, language, model_response, ai_out, result>>
callVars == <<call, detected, extracted>>
ingestVars ==
    <<graph, record, phase, once, queries, embedded, ingest_raised, rounds,
      ingestion, other, clearing, interferences>>
retrieveVars == <<request, retrieval>>
concurrentVars == <<store, workers>>
vars == <<parserVars, callVars, ingestVars, retrieveVars, concurrentVars>>

\* F applied to the value v: names a value that is used more than once.
With(v, F(_)) == F(v)

-----------------------------------------------------------------------------
(* Characters and Python's str methods.                                    *)

Lowers == {"a", "b", "c", "d", "e", "f", "g", "h", "i", "j", "k", "l", "m",
           "n", "o", "p", "q", "r", "s", "t", "u", "v", "w", "x", "y", "z"}
Uppers == {"A", "B", "C", "D", "E", "F", "G", "H", "I", "J", "K", "L", "M",
           "N", "O", "P", "Q", "R", "S", "T", "U", "V", "W", "X", "Y", "Z"}
Digits == {"0", "1", "2", "3", "4", "5", "6", "7", "8", "9"}
\* \w and \s of Python's re, over the ASCII characters the model's texts use.
WordChars == Lowers \cup Uppers \cup Digits \cup {"_"}
SpaceChars == {" ", "\t", "\n", "\r", "\f"}

LowerSeq == <<"a", "b", "c", "d", "e", "f", "g", "h", "i", "j", "k", "l", "m",
              "n", "o", "p", "q", "r", "s", "t", "u", "v", "w", "x", "y", "z">>
UpperSeq == <<"A", "B", "C", "D", "E", "F", "G", "H", "I", "J", "K", "L", "M",
              "N", "O", "P", "Q", "R", "S", "T", "U", "V", "W", "X", "Y", "Z">>

\* The value None of Python, where a text is expected (no text of the model
\* is this one).
None == "<None>"

\* s[i] of a text, 1-based.
Ch(s, i) == SubSeq(s, i, i)

LowerChar(c) ==
    IF c \in Uppers THEN LowerSeq[CHOOSE i \in 1..26 : UpperSeq[i] = c] ELSE c
UpperChar(c) ==
    IF c \in Lowers THEN UpperSeq[CHOOSE i \in 1..26 : LowerSeq[i] = c] ELSE c

\* str.lower(), str.upper(), str.capitalize()
RECURSIVE StrLower(_)
StrLower(s) == IF s = "" THEN "" ELSE LowerChar(Head(s)) \o StrLower(Tail(s))
RECURSIVE StrUpper(_)
StrUpper(s) == IF s = "" THEN "" ELSE UpperChar(Head(s)) \o StrUpper(Tail(s))
StrCapitalize(s) ==
    IF s = "" THEN "" ELSE UpperChar(Head(s)) \o StrLower(Tail(s))

\* s[a:b] of Python for 0 <= a, b (0-based, b exclusive), clipped to the text.
Slice(s, a, b) ==
    LET hi == IF b > Len(s) THEN Len(s) ELSE b
    IN  IF a >= hi THEN "" ELSE SubSeq(s, a + 1, hi)

StartsWith(s, p) == Len(p) <= Len(s) /\ SubSeq(s, 1, Len(p)) = p
EndsWith(s, p) ==
    Len(p) <= Len(s) /\ SubSeq(s, Len(s) - Len(p) + 1, Len(s)) = p

\* str.count(c) for a one-character c
CountChar(s, c) == Cardinality({i \in 1..Len(s) : Ch(s, i) = c})

\* str.find(c) and str.rfind(c) for a one-character c: 0-based, -1 if absent
StrFind(s, c) ==
    IF \E i \in 1..Len(s) : Ch(s, i) = c
    THEN (CHOOSE i \in 1..Len(s) :
              Ch(s, i) = c /\ \A j \in 1..(i - 1) : Ch(s, j) # c) - 1
    ELSE -1
StrRFind(s, c) ==
    IF \E i \in 1..Len(s) : Ch(s, i) = c
    THEN (CHOOSE i \in 1..Len(s) :
              Ch(s, i) = c /\ \A j \in (i + 1)..Len(s) : Ch(s, j) # c) - 1
    ELSE -1

\* str.find(sub): 0-based index of the first occurrence, -1 if absent
StrFindSub(s, sub) ==
    LET at(i) == i + Len(sub) - 1 <= Len(s) /\ SubSeq(s, i, i + Len(sub) - 1) = sub
        hits == {i \in 1..(Len(s) + 1) : at(i)}
    IN  IF hits = {} THEN -1
        ELSE (CHOOSE i \in hits : \A j \in hits : i <= j) - 1

\* str.strip(): without the white space at both ends
RECURSIVE LStrip(_)
LStrip(s) ==
    IF s # "" /\ Head(s) \in SpaceChars THEN LStrip(Tail(s)) ELSE s
RECURSIVE RStrip(_)
RStrip(s) ==
    IF s # "" /\ Ch(s, Len(s)) \in SpaceChars
    THEN RStrip(SubSeq(s, 1, Len(s) - 1)) ELSE s
StrStrip(s) == RStrip(LStrip(s))

\* os.path.basename (POSIX): what follows the last "/"
Basename(p) == Slice(p, StrRFind(p, "/") + 1, Len(p))

-----------------------------------------------------------------------------
(* Python's re: a backtracking matcher over the compiled pattern.  A       *)
(* pattern is a sequence of nodes.  The matcher takes, at each choice      *)
(* (alternatives in order, greedy repeats longest first, lazy repeats      *)
(* shortest first), the first choice with which the rest of the pattern    *)
(* matches: the match Python's engine returns.                             *)

Lit(c) == [k |-> "lit", c |-> c]
Str(s) == [k |-> "str", s |-> s]
In(cs) == [k |-> "in", cs |-> cs, neg |-> FALSE]
NotIn(cs) == [k |-> "in", cs |-> cs, neg |-> TRUE]
AnyChar == [k |-> "any"]
Bol == [k |-> "bol"]
Eol == [k |-> "eol"]
WordB == [k |-> "wordb"]
Rep(lo, hi, sub) == [k |-> "rep", lo |-> lo, hi |-> hi, greedy |-> TRUE, sub |-> sub]
Lazy(lo, hi, sub) == [k |-> "rep", lo |-> lo, hi |-> hi, greedy |-> FALSE, sub |-> sub]
Grp(n, sub) == [k |-> "grp", n |-> n, sub |-> sub]
Alt(subs) == [k |-> "alt", subs |-> subs]

\* The flags of a call: re.IGNORECASE, re.MULTILINE, re.DOTALL.
Flags(i, m, s) == [ic |-> i, ml |-> m, dotall |-> s]
NoFlags == Flags(FALSE, FALSE, FALSE)
FlagsI == Flags(TRUE, FALSE, FALSE)
FlagsM == Flags(FALSE, TRUE, FALSE)
FlagsIM == Flags(TRUE, TRUE, FALSE)
FlagsMS == Flags(FALSE, TRUE, TRUE)

NoMatch == [ok |-> FALSE]

CharEq(a, b, fl) == a = b \/ (fl.ic /\ LowerChar(a) = LowerChar(b))
InClass(c, n, fl) ==
    LET hit == c \in n.cs \/ (fl.ic /\ (LowerChar(c) \in n.cs \/ UpperChar(c) \in n.cs))
    IN  hit # n.neg

\* i is 1-based: the position of the next character to match.
IsWordAt(s, i) == i >= 1 /\ i <= Len(s) /\ Ch(s, i) \in WordChars
AtBol(s, i, fl) == i = 1 \/ (fl.ml /\ Ch(s, i - 1) = "\n")
AtEol(s, i, fl) ==
    \/ i = Len(s) + 1
    \/ (i = Len(s) /\ Ch(s, i) = "\n")
    \/ (fl.ml /\ i <= Len(s) /\ Ch(s, i) = "\n")

\* Whether the character s[i] is one the one-character node n matches.
CharOk(n, s, i, fl) ==
    /\ i <= Len(s)
    /\ CASE n.k = "lit" -> CharEq(Ch(s, i), n.c, fl)
         [] n.k = "in" -> InClass(Ch(s, i), n, fl)
         [] n.k = "any" -> fl.dotall \/ Ch(s, i) # "\n"

IsCharNode(n) == n.k \in {"lit", "in", "any"}
IsCharRep(n) == Len(n.sub) = 1 /\ IsCharNode(n.sub[1])

\* The groups of a pattern, none of them set.
NoCaps == [n \in 1..2 |-> <<>>]

\* What the matcher puts among the nodes still to match: the end of the
\* pattern, the end of group n that began at from, and the end of a round
\* of the repeat rep that began at from.
End == [k |-> "end"]
Close(n, from) == [k |-> "close", n |-> n, from |-> from]
Again(rep, from) ==
    [k |-> "again", from |-> from,
     rep |-> [rep EXCEPT !.lo = IF rep.lo > 0 THEN rep.lo - 1 ELSE 0,
                         !.hi = IF rep.hi > 0 THEN rep.hi - 1 ELSE rep.hi]]

Matched(end) == [ok |-> TRUE, end |-> end, caps |-> NoCaps]

\* The match r with group n set to s[from..to-1], where r has not set it.
SetGroup(r, n, from, to) ==
    IF r.ok /\ r.caps[n] = <<>> THEN [r EXCEPT !.caps[n] = <<from, to>>] ELSE r

\* Of the ranked outcomes <<rank, match>>, the match of lowest rank: the
\* first choice of the engine that matches.
First(ranked) ==
    LET ok == {p \in ranked : p[2].ok}
    IN  IF ok = {} THEN NoMatch
        ELSE (CHOOSE p \in ok : \A q \in ok : p[1] <= q[1])[2]

\* re.match at index i: the match of the pattern re from s[i] on that the
\* engine finds, as [ok, end, caps].  M matches the nodes still to match,
\* which end with the node "end"; where the engine has a choice (the
\* alternatives of a branch, the counts of a repeat) the choices are ranked
\* in the order in which the engine tries them and the first that lets the
\* rest of the pattern match is taken.  A group is set when the nodes after
\* it have matched, unless a later round of the same group has set it.
MatchAt(re, s, at, fl) ==
    LET Ok(n, i) ==
            /\ i <= Len(s)
            /\ CASE n.k = "lit" -> CharEq(Ch(s, i), n.c, fl)
                 [] n.k = "in" -> InClass(Ch(s, i), n, fl)
                 [] n.k = "any" -> fl.dotall \/ Ch(s, i) # "\n"
        \* the characters from s[i] on that n matches in a row, at most lim
        Run(n, i, lim) ==
            CHOOSE r \in 0..lim :
                /\ \A m \in 0..(r - 1) : Ok(n, i + m)
                /\ r = lim \/ ~Ok(n, i + r)
        Limit(h, i) ==
            IF h.hi >= 0 /\ h.hi < Len(s) - i + 1 THEN h.hi
            ELSE IF i > Len(s) THEN 0 ELSE Len(s) - i + 1
        RECURSIVE M(_, _)
        M(items, i) ==
            CASE items[1].k = "end" -> Matched(i)
              [] items[1].k = "str" ->
                   IF /\ i + Len(items[1].s) - 1 <= Len(s)
                      /\ \A j \in 1..Len(items[1].s) :
                            CharEq(Ch(s, i + j - 1), Ch(items[1].s, j), fl)
                   THEN M(Tail(items), i + Len(items[1].s)) ELSE NoMatch
              [] IsCharNode(items[1]) ->
                   IF Ok(items[1], i) THEN M(Tail(items), i + 1) ELSE NoMatch
              [] items[1].k = "bol" ->
                   IF AtBol(s, i, fl) THEN M(Tail(items), i) ELSE NoMatch
              [] items[1].k = "eol" ->
                   IF AtEol(s, i, fl) THEN M(Tail(items), i) ELSE NoMatch
              [] items[1].k = "wordb" ->
                   IF IsWordAt(s, i - 1) # IsWordAt(s, i)
                   THEN M(Tail(items), i) ELSE NoMatch
              [] items[1].k = "grp" ->
                   M(items[1].sub \o <<Close(items[1].n, i)>> \o Tail(items), i)
              [] items[1].k = "close" ->
                   SetGroup(M(Tail(items), i), items[1].n, items[1].from, i)
              [] items[1].k = "alt" /\ Len(items[1].subs) = 1 ->
                   M(items[1].subs[1] \o Tail(items), i)
              [] items[1].k = "alt" ->
                   First({<<a, M(items[1].subs[a] \o Tail(items), i)>> :
                             a \in 1..Len(items[1].subs)})
              [] items[1].k = "rep" /\ IsCharRep(items[1]) ->
                   First({<<IF items[1].greedy THEN 0 - n ELSE n,
                            M(Tail(items), i + n)>> :
                             n \in items[1].lo..
                                   Run(items[1].sub[1], i, Limit(items[1], i))})
              [] items[1].k = "rep" ->
                   First((IF items[1].hi = 0 THEN {}
                          ELSE {<<IF items[1].greedy THEN 1 ELSE 2,
                                  M(items[1].sub \o <<Again(items[1], i)>>
                                        \o Tail(items), i)>>})
                         \cup
                         (IF items[1].lo > 0 THEN {}
                          ELSE {<<IF items[1].greedy THEN 2 ELSE 1,
                                  M(Tail(items), i)>>}))
              [] items[1].k = "again" ->
                   IF i = items[1].from THEN NoMatch
                   ELSE M(<<items[1].rep>> \o Tail(items), i)
    IN  M(re \o <<End>>, at)

\* [a-zA-Z_][a-zA-Z0-9_]*, \s* and \s+, which most patterns of the code use.
Ident == Alt(<< <<In(Lowers \cup Uppers \cup {"_"}),
                 Rep(0, -1, <<In(Lowers \cup Uppers \cup Digits \cup {"_"})>>)>> >>)
Ws0 == Rep(0, -1, <<In(SpaceChars)>>)
Ws1 == Rep(1, -1, <<In(SpaceChars)>>)

\* re.match(pattern, s, flags): the match at the start of s.
ReMatch(re, s, fl) == MatchAt(re, s, 1, fl)

\* The match that starts at s[i], as [ok, start, end, caps], end exclusive.
Started(r, i) ==
    IF r.ok THEN [ok |-> TRUE, start |-> i, end |-> r.end, caps |-> r.caps]
    ELSE NoMatch

\* The matches of the pattern in s, one for each index where one starts.
AllMatches(re, s, fl) ==
    {m \in {Started(MatchAt(re, s, i, fl), i) : i \in 1..(Len(s) + 1)} : m.ok}

\* Of the matches ms, the leftmost that starts at index from or later.
Leftmost(ms, from) ==
    IF \A m \in ms : m.start < from THEN NoMatch
    ELSE CHOOSE m \in ms :
             m.start >= from /\ \A o \in ms : o.start >= from => m.start <= o.start

\* pattern.search(s, pos): the leftmost match starting at index >= from
\* (1-based).
SearchFrom(re, s, from, fl) == Leftmost(AllMatches(re, s, fl), from)

\* re.search(pattern, s, flags) is not None
ReSearch(re, s, fl) == \E i \in 1..(Len(s) + 1) : MatchAt(re, s, i, fl).ok

\* re.finditer(pattern, s, flags): the non-overlapping matches, left to
\* right, each search starting where the match before it ended.
RECURSIVE FindIterFrom(_, _)
FindIterAfter(ms, m) ==
    IF ~m.ok THEN <<>>
    ELSE <<m>> \o FindIterFrom(ms, IF m.end > m.start THEN m.end ELSE m.end + 1)
FindIterFrom(ms, from) == FindIterAfter(ms, Leftmost(ms, from))
ReFindIter(re, s, fl) == FindIterFrom(AllMatches(re, s, fl), 1)

\* match.group(0) and match.group(n) of a match m in s; a group that did not
\* take part in the match is None.
Group0(s, m) == SubSeq(s, m.start, m.end - 1)
GroupN(s, m, n) ==
    IF m.caps[n] = <<>> THEN None ELSE SubSeq(s, m.caps[n][1], m.caps[n][2] - 1)

\* re.escape(name) followed in a pattern: the name as a literal.
ReEscape(name) == Str(name)

-----------------------------------------------------------------------------
(* Python values: a dict is a sequence of <<key, value>> pairs in insertion *)
(* order; a value that is not a text is tagged with its type.              *)

VStr(s) == [str |-> s]
VInt(n) == [int |-> n]
VList(items) == [list |-> items]
VDict(pairs) == [dict |-> pairs]
VBool(b) == [bool |-> b]
VNull == [null |-> TRUE]

DictKeys(d) == {d[i][1] : i \in 1..Len(d)}
DictHas(d, key) == key \in DictKeys(d)
\* d.get(key, default)
DictGet(d, key, default) ==
    IF DictHas(d, key)
    THEN d[CHOOSE i \in 1..Len(d) : d[i][1] = key][2]
    ELSE default
\* d[key] = value
DictSet(d, key, value) ==
    IF DictHas(d, key)
    THEN [i \in 1..Len(d) |-> IF d[i][1] = key THEN <<key, value>> ELSE d[i]]
    ELSE Append(d, <<key, value>>)

\* class CodeEntity and class CodeRelationship. The properties are a value
\* of any kind; properties that are None become {}.
CodeEntity(name, entity_type, path, description, properties) ==
    [name |-> name, entity_type |-> entity_type, file_path |-> path,
     description |-> description,
     properties |-> IF properties = VNull THEN VDict(<<>>) ELSE properties]
CodeRelationship(source, target, relationship_type, context) ==
    [source |-> source, target |-> target,
     relationship_type |-> relationship_type, context |-> context]

-----------------------------------------------------------------------------
(* CodeParser.detect_language                                              *)

language_patterns == <<
    [lang |-> "cobol", pats |-> <<
      \* \.cob$
      <<Str(".cob"), Eol>>,
      \* \.cbl$
      <<Str(".cbl"), Eol>>,
      \* \.cpy$
      <<Str(".cpy"), Eol>>,
      \* IDENTIFICATION\s+DIVISION
      <<Str("IDENTIFICATION"), Ws1, Str("DIVISION")>>,
      \* PROGRAM-ID
      <<Str("PROGRAM-ID")>>>>],
    [lang |-> "c", pats |-> <<
      \* \.c$
      <<Str(".c"), Eol>>,
      \* \.h$
      <<Str(".h"), Eol>>,
      \* #include\s*<
      <<Str("#include"), Ws0, Lit("<")>>,
      \* int\s+main\s*\(
      <<Str("int"), Ws1, Str("main"), Ws0, Lit("(")>>>>],
    [lang |-> "cpp", pats |-> <<
      \* \.cpp$
      <<Str(".cpp"), Eol>>,
      \* \.cc$
      <<Str(".cc"), Eol>>,
      \* \.cxx$
      <<Str(".cxx"), Eol>>,
      \* \.hpp$
      <<Str(".hpp"), Eol>>,
      \* #include\s*<iostream>
      <<Str("#include"), Ws0, Str("<iostream>")>>,
      \* using\s+namespace
      <<Str("using"), Ws1, Str("namespace")>>>>],
    [lang |-> "python", pats |-> <<
      \* \.py$
      <<Str(".py"), Eol>>,
      \* import\s+
      <<Str("import"), Ws1>>,
      \* def\s+
      <<Str("def"), Ws1>>,
      \* class\s+
      <<Str("class"), Ws1>>>>],
    [lang |-> "java", pats |-> <<
      \* \.java$
      <<Str(".java"), Eol>>,
      \* public\s+class
      <<Str("public"), Ws1, Str("class")>>,
      \* import\s+java\.
      <<Str("import"), Ws1, Str("java.")>>>>],
    [lang |-> "javascript", pats |-> <<
      \* \.js$
      <<Str(".js"), Eol>>,
      \* const\s+
      <<Str("const"), Ws1>>,
      \* let\s+
      <<Str("let"), Ws1>>,
      \* function\s+
      <<Str("function"), Ws1>>,
      \* export\s+
      <<Str("export"), Ws1>>>>],
    [lang |-> "typescript", pats |-> <<
      \* \.ts$
      <<Str(".ts"), Eol>>,
      \* \.tsx$
      <<Str(".tsx"), Eol>>,
      \* interface\s+
      <<Str("interface"), Ws1>>,
      \* type\s+
      <<Str("type"), Ws1>>,
      \* export\s+
      <<Str("export"), Ws1>>>>],
    [lang |-> "csharp", pats |-> <<
      \* \.cs$
      <<Str(".cs"), Eol>>,
      \* namespace\s+
      <<Str("namespace"), Ws1>>,
      \* using\s+System
      <<Str("using"), Ws1, Str("System")>>,
      \* public\s+class
      <<Str("public"), Ws1, Str("class")>>>>],
    [lang |-> "go", pats |-> <<
      \* \.go$
      <<Str(".go"), Eol>>,
      \* package\s+
      <<Str("package"), Ws1>>,
      \* import\s+\(
      <<Str("import"), Ws1, Lit("(")>>,
      \* func\s+
      <<Str("func"), Ws1>>>>],
    [lang |-> "ruby", pats |-> <<
      \* \.rb$
      <<Str(".rb"), Eol>>,
      \* require\s+
      <<Str("require"), Ws1>>,
      \* def\s+
      <<Str("def"), Ws1>>,
      \* class\s+
      <<Str("class"), Ws1>>>>],
    [lang |-> "php", pats |-> <<
      \* \.php$
      <<Str(".php"), Eol>>,
      \* \<\?php
      <<Str("<?php")>>,
      \* function\s+
      <<Str("function"), Ws1>>,
      \* class\s+
      <<Str("class"), Ws1>>>>],
    [lang |-> "jcl", pats |-> <<
      \* \.jcl$
      <<Str(".jcl"), Eol>>,
      \* //\w+\s+JOB
      <<Str("//"), Rep(1, -1, <<In(WordChars)>>), Ws1, Str("JOB")>>,
      \* //\w+\s+EXEC
      <<Str("//"), Rep(1, -1, <<In(WordChars)>>), Ws1, Str("EXEC")>>>>]>>

\* The score of one language: 2 for each of its patterns found in the path,
\* 1 for each found in the content.
LanguageScore(pats, path, text) ==
    LET RECURSIVE Sum(_)
        Sum(k) ==
            IF k > Len(pats) THEN 0
            ELSE (IF ReSearch(pats[k], path, FlagsI) THEN 2 ELSE 0)
                 + (IF ReSearch(pats[k], text, FlagsIM) THEN 1 ELSE 0)
                 + Sum(k + 1)
    IN  Sum(1)

\* The score at which a language is returned
Threshold == 2

\* A detect_language that keeps scanning and returns the last language that
\* reaches the threshold.
detect_language_last(path, text) ==
    LET RECURSIVE Scan(_)
        Scan(k) ==
            IF k = 0 THEN "unknown"
            ELSE IF LanguageScore(language_patterns[k].pats, path, text) >= Threshold
                 THEN language_patterns[k].lang
                 ELSE Scan(k - 1)
    IN  Scan(Len(language_patterns))

\* detect_language(file_path, content): the first language of the table
\* whose score reaches the threshold, or unknown
detect_language(path, text) ==
    LET RECURSIVE Scan(_)
        Scan(k) ==
            IF k > Len(language_patterns) THEN "unknown"
            ELSE IF LanguageScore(language_patterns[k].pats, path, text) >= Threshold
                 THEN language_patterns[k].lang
                 ELSE Scan(k + 1)
    IN  Scan(1)

-----------------------------------------------------------------------------
(* CodeParser.extract_with_ai.  What the generative model answers is an    *)
(* input: the call raises (a timeout, a quota error), or it returns a text. *)

\* json.loads on the texts the model's responses hold between their first
\* "{" and their last "}": these are the JSON documents among them, with
\* the value json.loads gives each; every other such text is not JSON.
JsonDocs == <<
    [text |->
        "{\"entities\": [{\"name\": \"f\", \"entity_type\": \"function\", \"properties\": \"abc\"}, {\"name\": \"g\", \"entity_type\": \"class\", \"properties\": []}]}",
     value |->
        VDict(<<<<"entities", VList(<<VDict(<<<<"name", VStr("f")>>,
        <<"entity_type", VStr("function")>>, <<"properties",
        VStr("abc")>>>>), VDict(<<<<"name", VStr("g")>>, <<"entity_type",
        VStr("class")>>, <<"properties", VList(<<>>)>>>>)>>)>>>>)],
    [text |->
        "{\"entities\": [{\"name\": \"login\", \"entity_type\": \"function\", \"description\": \"logs a user in\", \"properties\": {\"line_number\": 1}, \"complexity\": \"low\"}], \"relationships\": [{\"source\": \"login\", \"target\": \"check\", \"relationship_type\": \"calls\", \"context\": \"login calls check\"}]}",
     value |->
        VDict(<<<<"entities", VList(<<VDict(<<<<"name", VStr("login")>>,
        <<"entity_type", VStr("function")>>, <<"description",
        VStr("logs a user in")>>, <<"properties", VDict(<<<<"line_number",
        VInt(1)>>>>)>>, <<"complexity", VStr("low")>>>>)>>)>>,
        <<"relationships", VList(<<VDict(<<<<"source", VStr("login")>>,
        <<"target", VStr("check")>>, <<"relationship_type", VStr("calls")>>,
        <<"context", VStr("login calls check")>>>>)>>)>>>>)],
    [text |->
        "{\"entities\": [{\"name\": \"A\", \"entity_type\": \"class\", \"description\": \"class A\"}, {\"name\": \"f\", \"entity_type\": \"function\", \"description\": \"method f\", \"properties\": null}], \"relationships\": [{\"source\": \"A\", \"target\": \"f\", \"relationship_type\": \"contains\"}]}",
     value |->
        VDict(<<<<"entities", VList(<<VDict(<<<<"name", VStr("A")>>,
        <<"entity_type", VStr("class")>>, <<"description",
        VStr("class A")>>>>), VDict(<<<<"name", VStr("f")>>, <<"entity_type",
        VStr("function")>>, <<"description", VStr("method f")>>,
        <<"properties", VNull>>>>)>>)>>, <<"relationships",
        VList(<<VDict(<<<<"source", VStr("A")>>, <<"target", VStr("f")>>,
        <<"relationship_type", VStr("contains")>>>>)>>)>>>>)],
    [text |->
        "{\"entities\": [], \"relationships\": [{\"source\": \"a\", \"target\": \"b\", \"relationship_type\": \"uses\", \"context\": \"a uses b\"}]}",
     value |->
        VDict(<<<<"entities", VList(<<>>)>>, <<"relationships",
        VList(<<VDict(<<<<"source", VStr("a")>>, <<"target", VStr("b")>>,
        <<"relationship_type", VStr("uses")>>, <<"context",
        VStr("a uses b")>>>>)>>)>>>>)],
    [text |->
        "{\"entities\": [{\"entity_type\": \"function\", \"description\": \"something\"}], \"relationships\": []}",
     value |->
        VDict(<<<<"entities", VList(<<VDict(<<<<"entity_type",
        VStr("function")>>, <<"description", VStr("something")>>>>)>>)>>,
        <<"relationships", VList(<<>>)>>>>)],
    [text |->
        "{\"entities\": [{\"name\": \"f\", \"entity_type\": null, \"description\": \"d\"}]}",
     value |->
        VDict(<<<<"entities", VList(<<VDict(<<<<"name", VStr("f")>>,
        <<"entity_type", VNull>>, <<"description", VStr("d")>>>>)>>)>>>>)],
    [text |->
        "{\"entities\": [{\"name\": \"g\", \"entity_type\": \"variable\"}], \"relationships\": []}",
     value |->
        VDict(<<<<"entities", VList(<<VDict(<<<<"name", VStr("g")>>,
        <<"entity_type", VStr("variable")>>>>)>>)>>, <<"relationships",
        VList(<<>>)>>>>)],
    [text |->
        "{\"entities\": null, \"relationships\": []}",
     value |->
        VDict(<<<<"entities", VNull>>, <<"relationships", VList(<<>>)>>>>)],
    [text |->
        "{\"entities\": [\"login\"], \"relationships\": []}",
     value |->
        VDict(<<<<"entities", VList(<<VStr("login")>>)>>, <<"relationships",
        VList(<<>>)>>>>)],
    [text |->
        "{\"entities\": [{\"name\": \"h\", \"entity_type\": \"function\", \"description\": \"d\"}], \"relationships\": [\"h calls g\"]}",
     value |->
        VDict(<<<<"entities", VList(<<VDict(<<<<"name", VStr("h")>>,
        <<"entity_type", VStr("function")>>, <<"description",
        VStr("d")>>>>)>>)>>, <<"relationships",
        VList(<<VStr("h calls g")>>)>>>>)],
    [text |->
        "{}",
     value |->
        VDict(<<>>)]>>

JsonLoads(text) ==
    IF \E i \in 1..Len(JsonDocs) : JsonDocs[i].text = text
    THEN [ok |-> TRUE,
          value |-> JsonDocs[CHOOSE i \in 1..Len(JsonDocs) : JsonDocs[i].text = text].value]
    ELSE [ok |-> FALSE]

IsStr(v) == DOMAIN v = {"str"}
IsList(v) == DOMAIN v = {"list"}
IsDict(v) == DOMAIN v = {"dict"}

\* A JSON string or null where the code expects a text: the text, or None.
\* (The responses of the model give name, entity_type, description and the
\* fields of a relationship a string or null.)
TextOrNone(v) == IF v = VNull THEN None ELSE v.str

\* The elements `for x in v` visits, or that v cannot be iterated.
Iterate(v) ==
    CASE IsList(v) -> [ok |-> TRUE, items |-> v.list]
      [] IsDict(v) -> [ok |-> TRUE, items |-> [i \in 1..Len(v.dict) |-> VStr(v.dict[i][1])]]
      [] IsStr(v) -> [ok |-> TRUE, items |-> [i \in 1..Len(v.str) |-> VStr(Ch(v.str, i))]]
      [] OTHER -> [ok |-> FALSE]

EntityFields == {"name", "entity_type", "description", "properties"}

\* One entity_data of the response: the CodeEntity built from it, or that
\* building it raised (entity_data is no dict; a key beside the four is to
\* be folded into a properties that is no dict). With no key to fold, the
\* properties of the response are taken as they are, of whatever kind.
AiEntity(entity_data, path) ==
    IF ~IsDict(entity_data) THEN [exc |-> TRUE]
    ELSE
    LET d == entity_data.dict
        given == DictGet(d, "properties", VDict(<<>>))
        extra == SelectSeq(d, LAMBDA kv : kv[1] \notin EntityFields /\ kv[2] # VNull)
        RECURSIVE Fold(_, _)
        Fold(props, k) ==
            IF k > Len(extra) THEN props
            ELSE Fold(DictSet(props, extra[k][1], extra[k][2]), k + 1)
    IN  IF extra # <<>> /\ ~IsDict(given) THEN [exc |-> TRUE]
        ELSE [exc |-> FALSE,
              entity |-> CodeEntity(
                  TextOrNone(DictGet(d, "name", VNull)),
                  TextOrNone(DictGet(d, "entity_type", VNull)),
                  path,
                  TextOrNone(DictGet(d, "description", VStr(""))),
                  IF IsDict(given) THEN VDict(Fold(given.dict, 1)) ELSE given)]

AiRelationship(rel_data) ==
    IF ~IsDict(rel_data) THEN [exc |-> TRUE]
    ELSE LET d == rel_data.dict
         IN  [exc |-> FALSE,
              rel |-> CodeRelationship(
                  TextOrNone(DictGet(d, "source", VNull)),
                  TextOrNone(DictGet(d, "target", VNull)),
                  TextOrNone(DictGet(d, "relationship_type", VNull)),
                  TextOrNone(DictGet(d, "context", VStr(""))))]

\* The loops over the entities and the relationships of the response, es
\* and rs being what there is to iterate in each.
AiCollect(es, rs, path) ==
    IF ~es.ok \/ ~rs.ok THEN [exc |-> TRUE]
    ELSE With(<<[i \in 1..Len(es.items) |-> AiEntity(es.items[i], path)],
                [i \in 1..Len(rs.items) |-> AiRelationship(rs.items[i])]>>,
              LAMBDA built :
                  IF \/ \E i \in 1..Len(built[1]) : built[1][i].exc
                     \/ \E i \in 1..Len(built[2]) : built[2][i].exc
                  THEN [exc |-> TRUE]
                  ELSE [exc |-> FALSE, returned |-> TRUE,
                        entities |->
                            [i \in 1..Len(built[1]) |-> built[1][i].entity],
                        relationships |->
                            [i \in 1..Len(built[2]) |-> built[2][i].rel]])

\* json.loads of the text between the first "{" and the last "}", and the
\* entities and relationships of the parsed data.
AiParse(json_text, path) ==
    With(JsonLoads(json_text),
         LAMBDA parsed :
             IF ~parsed.ok THEN [exc |-> TRUE]
             ELSE AiCollect(
                      Iterate(DictGet(parsed.value.dict, "entities", VList(<<>>))),
                      Iterate(DictGet(parsed.value.dict, "relationships", VList(<<>>))),
                      path))

\* The try block: [exc |-> TRUE] when a statement of it raises, else whether
\* it reached its return, and what it returned.
AiTry(text, lang, path, response) ==
    IF response.raises THEN [exc |-> TRUE]
    ELSE
    LET response_text == response.text
        json_start == StrFind(response_text, "{")
        json_end == StrRFind(response_text, "}") + 1
    IN  IF ~(json_start >= 0 /\ json_end > json_start)
        THEN [exc |-> FALSE, returned |-> FALSE]
        ELSE AiParse(Slice(response_text, json_start, json_end), path)

\* What a call returns to its caller: it raised, or it returned the pair
\* (entities, relationships).
Returned(entities, relationships) ==
    [raised |-> FALSE, entities |-> entities, relationships |-> relationships]
Raised == [raised |-> TRUE, entities |-> <<>>, relationships |-> <<>>]

\* extract_with_ai without its except clause: what the try block raises
\* reaches the caller.
extract_with_ai_unguarded(text, lang, path, response) ==
    With(AiTry(text, lang, path, response),
         LAMBDA try :
             IF try.exc THEN Raised
             ELSE IF try.returned THEN Returned(try.entities, try.relationships)
             ELSE Returned(<<>>, <<>>))

\* try: ... except Exception: log; return [], []
extract_with_ai(text, lang, path, response) ==
    With(AiTry(text, lang, path, response),
         LAMBDA try :
             IF try.exc THEN Returned(<<>>, <<>>)
             ELSE IF try.returned THEN Returned(try.entities, try.relationships)
             ELSE Returned(<<>>, <<>>))

\* What the generative model may answer in the model.
Responses == {
    [raises |-> TRUE, text |->
        ""],
    [raises |-> FALSE, text |->
        "I cannot analyze this file."],
    [raises |-> FALSE, text |->
        "} see above {"],
    [raises |-> FALSE, text |->
        "{\"entities\": [login]}"],
    [raises |-> FALSE, text |->
        "{\"entities\": [{\"name\": \"login\""],
    [raises |-> FALSE, text |->
        "Here is the analysis:\n{\"entities\": [{\"name\": \"login\", \"entity_type\": \"function\", \"description\": \"logs a user in\", \"properties\": {\"line_number\": 1}, \"complexity\": \"low\"}], \"relationships\": [{\"source\": \"login\", \"target\": \"check\", \"relationship_type\": \"calls\", \"context\": \"login calls check\"}]}\nDone."],
    [raises |-> FALSE, text |->
        "Note {x}: {\"entities\": [{\"name\": \"login\", \"entity_type\": \"function\", \"description\": \"logs a user in\", \"properties\": {\"line_number\": 1}, \"complexity\": \"low\"}], \"relationships\": [{\"source\": \"login\", \"target\": \"check\", \"relationship_type\": \"calls\", \"context\": \"login calls check\"}]}"],
    [raises |-> FALSE, text |->
        "{\"entities\": [{\"name\": \"A\", \"entity_type\": \"class\", \"description\": \"class A\"}, {\"name\": \"f\", \"entity_type\": \"function\", \"description\": \"method f\", \"properties\": null}], \"relationships\": [{\"source\": \"A\", \"target\": \"f\", \"relationship_type\": \"contains\"}]}"],
    [raises |-> FALSE, text |->
        "{\"entities\": [], \"relationships\": [{\"source\": \"a\", \"target\": \"b\", \"relationship_type\": \"uses\", \"context\": \"a uses b\"}]}"],
    [raises |-> FALSE, text |->
        "{\"entities\": [{\"entity_type\": \"function\", \"description\": \"something\"}], \"relationships\": []}"],
    [raises |-> FALSE, text |->
        "json:\n{\"entities\": [{\"name\": \"f\", \"entity_type\": null, \"description\": \"d\"}]}\n--"],
    [raises |-> FALSE, text |->
        "{\"entities\": [{\"name\": \"g\", \"entity_type\": \"variable\"}], \"relationships\": []}"],
    [raises |-> FALSE, text |->
        "{\"entities\": null, \"relationships\": []}"],
    [raises |-> FALSE, text |->
        "{\"entities\": [\"login\"], \"relationships\": []}"],
    [raises |-> FALSE, text |->
        "{\"entities\": [{\"name\": \"h\", \"entity_type\": \"function\", \"description\": \"d\"}], \"relationships\": [\"h calls g\"]}"],
    [raises |-> FALSE, text |->
        "{\"entities\": [{\"name\": \"f\", \"entity_type\": \"function\", \"properties\": \"abc\"}, {\"name\": \"g\", \"entity_type\": \"class\", \"properties\": []}]}"],
    [raises |-> FALSE, text |->
        "{}"]}

-----------------------------------------------------------------------------
(* CodeParser.extract_with_regex: the pattern tables.  A row holds the     *)
(* entity type, the compiled pattern and the number of groups it has.      *)

cobol_patterns == <<
    \* ^[ ]*([A-Z0-9][A-Z0-9-]*)\s*\.
    [type |-> "paragraph", groups |-> 1, re |->
        <<Bol, Rep(0, -1, <<Lit(" ")>>), Grp(1, <<In(Uppers \cup Digits),
          Rep(0, -1, <<In(Uppers \cup Digits \cup {"-"})>>)>>), Ws0,
          Lit(".")>>],
    \* ^\s*\d+\s+([A-Z0-9-]+)(?:\s+PIC|\s+PICTURE)
    [type |-> "variable", groups |-> 1, re |->
        <<Bol, Ws0, Rep(1, -1, <<In(Digits)>>), Ws1, Grp(1, <<Rep(1, -1,
          <<In(Uppers \cup Digits \cup {"-"})>>)>>), Alt(<<<<Ws1,
          Str("PIC")>>, <<Ws1, Str("PICTURE")>>>>)>>],
    \* SELECT\s+([A-Z0-9-]+)\s+ASSIGN\s+TO
    [type |-> "file", groups |-> 1, re |->
        <<Str("SELECT"), Ws1, Grp(1, <<Rep(1, -1,
          <<In(Uppers \cup Digits \cup {"-"})>>)>>), Ws1, Str("ASSIGN"), Ws1,
          Str("TO")>>],
    \* PROGRAM-ID.\s+([A-Z0-9-]+)
    [type |-> "program", groups |-> 1, re |->
        <<Str("PROGRAM-ID"), AnyChar, Ws1, Grp(1, <<Rep(1, -1,
          <<In(Uppers \cup Digits \cup {"-"})>>)>>)>>],
    \* ^\s*IF\s+(.+?)\s+THEN
    [type |-> "business_rule", groups |-> 1, re |->
        <<Bol, Ws0, Str("IF"), Ws1, Grp(1, <<Lazy(1, -1, <<AnyChar>>)>>),
          Ws1, Str("THEN")>>]>>

python_patterns == <<
    \* def\s+([a-zA-Z_][a-zA-Z0-9_]*)\s*\(
    [type |-> "function", groups |-> 1, re |->
        <<Str("def"), Ws1, Grp(1, <<Ident>>), Ws0, Lit("(")>>],
    \* class\s+([a-zA-Z_][a-zA-Z0-9_]*)\s*(?:\(|:)
    [type |-> "class", groups |-> 1, re |->
        <<Str("class"), Ws1, Grp(1, <<Ident>>), Ws0, In({"(", ":"})>>],
    \* import\s+([a-zA-Z_][a-zA-Z0-9_.]*)
    [type |-> "import", groups |-> 1, re |->
        <<Str("import"), Ws1, Grp(1, <<In(Lowers \cup Uppers \cup {"_"}),
          Rep(0, -1, <<In(Lowers \cup Uppers \cup Digits \cup {"_",
          "."})>>)>>)>>],
    \* from\s+([a-zA-Z_][a-zA-Z0-9_.]*)\s+import
    [type |-> "from_import", groups |-> 1, re |->
        <<Str("from"), Ws1, Grp(1, <<In(Lowers \cup Uppers \cup {"_"}),
          Rep(0, -1, <<In(Lowers \cup Uppers \cup Digits \cup {"_",
          "."})>>)>>), Ws1, Str("import")>>],
    \* ([a-zA-Z_][a-zA-Z0-9_]*)\s*=\s*[^\(]
    [type |-> "variable", groups |-> 1, re |->
        <<Grp(1, <<Ident>>), Ws0, Lit("="), Ws0, NotIn({"("})>>],
    \* input\s*\(
    [type |-> "input_operation", groups |-> 0, re |->
        <<Str("input"), Ws0, Lit("(")>>],
    \* print\s*\(
    [type |-> "output_operation", groups |-> 0, re |->
        <<Str("print"), Ws0, Lit("(")>>],
    \* (?:for|while)\s+([a-zA-Z_][a-zA-Z0-9_]*)
    [type |-> "loop", groups |-> 1, re |->
        <<Alt(<<<<Str("for")>>, <<Str("while")>>>>), Ws1, Grp(1,
          <<Ident>>)>>],
    \* if\s+([^:]+):
    [type |-> "branch", groups |-> 1, re |->
        <<Str("if"), Ws1, Grp(1, <<Rep(1, -1, <<NotIn({":"})>>)>>),
          Lit(":")>>],
    \* with\s+([a-zA-Z_][a-zA-Z0-9_]*)\s+as\s+([a-zA-Z_][a-zA-Z0-9_]*):
    [type |-> "with_resource", groups |-> 2, re |->
        <<Str("with"), Ws1, Grp(1, <<Ident>>), Ws1, Str("as"), Ws1, Grp(2,
          <<Ident>>), Lit(":")>>],
    \* try\s*:
    [type |-> "try_except", groups |-> 0, re |->
        <<Str("try"), Ws0, Lit(":")>>]>>

java_patterns == <<
    \* (?:public|protected|private|static|\s)*\s*[\w\<\>\[\]]+\s+([a-zA-Z_][a-zA-Z0-9_]*)\s*\(
    [type |-> "method", groups |-> 1, re |->
        <<Rep(0, -1, <<Alt(<<<<Str("public")>>, <<Str("protected")>>,
          <<Str("private")>>, <<Str("static")>>, <<In(SpaceChars)>>>>)>>),
          Ws0, Rep(1, -1, <<In(WordChars \cup {"<", ">", "[", "]"})>>), Ws1,
          Grp(1, <<Ident>>), Ws0, Lit("(")>>],
    \* (?:public|protected|private|static|\s)*\s*(?:class|interface|enum)\s+([a-zA-Z_][a-zA-Z0-9_]*)
    [type |-> "class", groups |-> 1, re |->
        <<Rep(0, -1, <<Alt(<<<<Str("public")>>, <<Str("protected")>>,
          <<Str("private")>>, <<Str("static")>>, <<In(SpaceChars)>>>>)>>),
          Ws0, Alt(<<<<Str("class")>>, <<Str("interface")>>,
          <<Str("enum")>>>>), Ws1, Grp(1, <<Ident>>)>>],
    \* (?:public|protected|private|static|final|\s)*\s*(?:[\w\<\>\[\]]+)\s+([a-zA-Z_][a-zA-Z0-9_]*)\s*(?:=|;)
    [type |-> "field", groups |-> 1, re |->
        <<Rep(0, -1, <<Alt(<<<<Str("public")>>, <<Str("protected")>>,
          <<Str("private")>>, <<Str("static")>>, <<Str("final")>>,
          <<In(SpaceChars)>>>>)>>), Ws0, Rep(1, -1, <<In(WordChars \cup {"<",
          ">", "[", "]"})>>), Ws1, Grp(1, <<Ident>>), Ws0, In({"=", ";"})>>],
    \* import\s+([a-zA-Z_][a-zA-Z0-9_.]*);
    [type |-> "import", groups |-> 1, re |->
        <<Str("import"), Ws1, Grp(1, <<In(Lowers \cup Uppers \cup {"_"}),
          Rep(0, -1, <<In(Lowers \cup Uppers \cup Digits \cup {"_",
          "."})>>)>>), Lit(";")>>],
    \* interface\s+([a-zA-Z_][a-zA-Z0-9_]*)
    [type |-> "interface", groups |-> 1, re |->
        <<Str("interface"), Ws1, Grp(1, <<Ident>>)>>],
    \* class\s+([a-zA-Z_][a-zA-Z0-9_]*)\s+extends\s+([a-zA-Z_][a-zA-Z0-9_]*)
    [type |-> "extends", groups |-> 2, re |->
        <<Str("class"), Ws1, Grp(1, <<Ident>>), Ws1, Str("extends"), Ws1,
          Grp(2, <<Ident>>)>>],
    \* class\s+([a-zA-Z_][a-zA-Z0-9_]*)\s+implements\s+([a-zA-Z_][a-zA-Z0-9_,\s]*)
    [type |-> "implements", groups |-> 2, re |->
        <<Str("class"), Ws1, Grp(1, <<Ident>>), Ws1, Str("implements"), Ws1,
          Grp(2, <<In(Lowers \cup Uppers \cup {"_"}), Rep(0, -1,
          <<In(Lowers \cup Uppers \cup Digits \cup SpaceChars \cup {"_",
          ","})>>)>>)>>],
    \* @([a-zA-Z_][a-zA-Z0-9_]*)
    [type |-> "annotation", groups |-> 1, re |->
        <<Lit("@"), Grp(1, <<Ident>>)>>],
    \* try\s*\{
    [type |-> "try_catch", groups |-> 0, re |->
        <<Str("try"), Ws0, Lit("{")>>]>>

javascript_patterns == <<
    \* function\s+([a-zA-Z_][a-zA-Z0-9_]*)
    [type |-> "function", groups |-> 1, re |->
        <<Str("function"), Ws1, Grp(1, <<Ident>>)>>],
    \* const\s+([a-zA-Z_][a-zA-Z0-9_]*)\s*=\s*\([^)]*\)\s*=>
    [type |-> "arrow_function", groups |-> 1, re |->
        <<Str("const"), Ws1, Grp(1, <<Ident>>), Ws0, Lit("="), Ws0,
          Lit("("), Rep(0, -1, <<NotIn({")"})>>), Lit(")"), Ws0, Str("=>")>>],
    \* class\s+([a-zA-Z_][a-zA-Z0-9_]*)
    [type |-> "class", groups |-> 1, re |->
        <<Str("class"), Ws1, Grp(1, <<Ident>>)>>],
    \* (?:const|let|var)\s+([a-zA-Z_][a-zA-Z0-9_]*)\s*=
    [type |-> "variable", groups |-> 1, re |->
        <<Alt(<<<<Str("const")>>, <<Str("let")>>, <<Str("var")>>>>), Ws1,
          Grp(1, <<Ident>>), Ws0, Lit("=")>>],
    \* import\s+(?:{[^}]*}|[^;]+)\s+from\s+[\'"]([^\'"]+)[\'"]
    [type |-> "import", groups |-> 1, re |->
        <<Str("import"), Ws1, Alt(<<<<Lit("{"), Rep(0, -1,
          <<NotIn({"}"})>>), Lit("}")>>, <<Rep(1, -1, <<NotIn({";"})>>)>>>>),
          Ws1, Str("from"), Ws1, In({"'", "\""}), Grp(1, <<Rep(1, -1,
          <<NotIn({"'", "\""})>>)>>), In({"'", "\""})>>],
    \* export\s+(?:default\s+)?(?:function|class|const|let|var)\s+([a-zA-Z_][a-zA-Z0-9_]*)
    [type |-> "export", groups |-> 1, re |->
        <<Str("export"), Ws1, Rep(0, 1, <<Str("default"), Ws1>>),
          Alt(<<<<Str("function")>>, <<Str("class")>>, <<Str("const")>>,
          <<Str("let")>>, <<Str("var")>>>>), Ws1, Grp(1, <<Ident>>)>>],
    \* ([a-zA-Z_][a-zA-Z0-9_]*)\s*\([^)]*\)\s*{
    [type |-> "method", groups |-> 1, re |->
        <<Grp(1, <<Ident>>), Ws0, Lit("("), Rep(0, -1, <<NotIn({")"})>>),
          Lit(")"), Ws0, Lit("{")>>],
    \* new\s+Promise\s*\(
    [type |-> "promise", groups |-> 0, re |->
        <<Str("new"), Ws1, Str("Promise"), Ws0, Lit("(")>>],
    \* async\s+function\s+([a-zA-Z_][a-zA-Z0-9_]*)
    [type |-> "async_function", groups |-> 1, re |->
        <<Str("async"), Ws1, Str("function"), Ws1, Grp(1, <<Ident>>)>>],
    \* try\s*{
    [type |-> "try_catch", groups |-> 0, re |->
        <<Str("try"), Ws0, Lit("{")>>],
    \* fetch\s*\(
    [type |-> "fetch", groups |-> 0, re |->
        <<Str("fetch"), Ws0, Lit("(")>>]>>

c_patterns == <<
    \* (?:static|extern|\s)*\s*[\w\*\s]+\s+([a-zA-Z_][a-zA-Z0-9_]*)\s*\([^\;]*\)\s*\{
    [type |-> "function", groups |-> 1, re |->
        <<Rep(0, -1, <<Alt(<<<<Str("static")>>, <<Str("extern")>>,
          <<In(SpaceChars)>>>>)>>), Ws0, Rep(1, -1,
          <<In(WordChars \cup SpaceChars \cup {"*"})>>), Ws1, Grp(1,
          <<Ident>>), Ws0, Lit("("), Rep(0, -1, <<NotIn({";"})>>), Lit(")"),
          Ws0, Lit("{")>>],
    \* struct\s+([a-zA-Z_][a-zA-Z0-9_]*)\s*\{
    [type |-> "struct", groups |-> 1, re |->
        <<Str("struct"), Ws1, Grp(1, <<Ident>>), Ws0, Lit("{")>>],
    \* #define\s+([a-zA-Z_][a-zA-Z0-9_]*)
    [type |-> "define", groups |-> 1, re |->
        <<Str("#define"), Ws1, Grp(1, <<Ident>>)>>],
    \* #include\s+[<"]([^>"]+)[>"]
    [type |-> "include", groups |-> 1, re |->
        <<Str("#include"), Ws1, In({"<", "\""}), Grp(1, <<Rep(1, -1,
          <<NotIn({">", "\""})>>)>>), In({">", "\""})>>],
    \* #include\s+<([^>]+)>
    [type |-> "system_include", groups |-> 1, re |->
        <<Str("#include"), Ws1, Lit("<"), Grp(1, <<Rep(1, -1,
          <<NotIn({">"})>>)>>), Lit(">")>>],
    \* #include\s+"([^"]+)"
    [type |-> "project_include", groups |-> 1, re |->
        <<Str("#include"), Ws1, Lit("\""), Grp(1, <<Rep(1, -1,
          <<NotIn({"\""})>>)>>), Lit("\"")>>],
    \* (?:[\w\*\s]+)\s+([a-zA-Z_][a-zA-Z0-9_]*)\s*(?:=|;)
    [type |-> "variable", groups |-> 1, re |->
        <<Rep(1, -1, <<In(WordChars \cup SpaceChars \cup {"*"})>>), Ws1,
          Grp(1, <<Ident>>), Ws0, In({"=", ";"})>>],
    \* malloc\s*\(
    [type |-> "malloc", groups |-> 0, re |->
        <<Str("malloc"), Ws0, Lit("(")>>],
    \* free\s*\(
    [type |-> "free", groups |-> 0, re |->
        <<Str("free"), Ws0, Lit("(")>>],
    \* typedef\s+struct\s+([a-zA-Z_][a-zA-Z0-9_]*)
    [type |-> "typedef", groups |-> 1, re |->
        <<Str("typedef"), Ws1, Str("struct"), Ws1, Grp(1, <<Ident>>)>>],
    \* enum\s+([a-zA-Z_][a-zA-Z0-9_]*)
    [type |-> "enum", groups |-> 1, re |->
        <<Str("enum"), Ws1, Grp(1, <<Ident>>)>>]>>

sql_script_patterns == <<
    \* CREATE\s+TABLE\s+([a-zA-Z_][a-zA-Z0-9_]*)
    [type |-> "table", groups |-> 1, re |->
        <<Str("CREATE"), Ws1, Str("TABLE"), Ws1, Grp(1, <<Ident>>)>>],
    \* CREATE\s+VIEW\s+([a-zA-Z_][a-zA-Z0-9_]*)
    [type |-> "view", groups |-> 1, re |->
        <<Str("CREATE"), Ws1, Str("VIEW"), Ws1, Grp(1, <<Ident>>)>>],
    \* CREATE\s+PROCEDURE\s+([a-zA-Z_][a-zA-Z0-9_]*)
    [type |-> "procedure", groups |-> 1, re |->
        <<Str("CREATE"), Ws1, Str("PROCEDURE"), Ws1, Grp(1, <<Ident>>)>>],
    \* CREATE\s+FUNCTION\s+([a-zA-Z_][a-zA-Z0-9_]*)
    [type |-> "function", groups |-> 1, re |->
        <<Str("CREATE"), Ws1, Str("FUNCTION"), Ws1, Grp(1, <<Ident>>)>>],
    \* CREATE\s+TRIGGER\s+([a-zA-Z_][a-zA-Z0-9_]*)
    [type |-> "trigger", groups |-> 1, re |->
        <<Str("CREATE"), Ws1, Str("TRIGGER"), Ws1, Grp(1, <<Ident>>)>>],
    \* CREATE\s+INDEX\s+([a-zA-Z_][a-zA-Z0-9_]*)
    [type |-> "index", groups |-> 1, re |->
        <<Str("CREATE"), Ws1, Str("INDEX"), Ws1, Grp(1, <<Ident>>)>>],
    \* ALTER\s+TABLE\s+[a-zA-Z_][a-zA-Z0-9_]*\s+ADD\s+COLUMN\s+([a-zA-Z_][a-zA-Z0-9_]*)
    [type |-> "column", groups |-> 1, re |->
        <<Str("ALTER"), Ws1, Str("TABLE"), Ws1, Ident, Ws1, Str("ADD"), Ws1,
          Str("COLUMN"), Ws1, Grp(1, <<Ident>>)>>],
    \* FOREIGN\s+KEY\s+(?:\([^)]+\))?\s+REFERENCES\s+([a-zA-Z_][a-zA-Z0-9_]*)
    [type |-> "foreign_key", groups |-> 1, re |->
        <<Str("FOREIGN"), Ws1, Str("KEY"), Ws1, Rep(0, 1, <<Lit("("), Rep(1,
          -1, <<NotIn({")"})>>), Lit(")")>>), Ws1, Str("REFERENCES"), Ws1,
          Grp(1, <<Ident>>)>>]>>

default_patterns == <<
    \* \b(?:function|func|def|procedure|void|int|string|bool)\s+([a-zA-Z_][a-zA-Z0-9_]*)\s*\(
    [type |-> "function", groups |-> 1, re |->
        <<WordB, Alt(<<<<Str("function")>>, <<Str("func")>>, <<Str("def")>>,
          <<Str("procedure")>>, <<Str("void")>>, <<Str("int")>>,
          <<Str("string")>>, <<Str("bool")>>>>), Ws1, Grp(1, <<Ident>>), Ws0,
          Lit("(")>>],
    \* \b(?:class|struct|interface)\s+([a-zA-Z_][a-zA-Z0-9_]*)
    [type |-> "class", groups |-> 1, re |->
        <<WordB, Alt(<<<<Str("class")>>, <<Str("struct")>>,
          <<Str("interface")>>>>), Ws1, Grp(1, <<Ident>>)>>],
    \* \b(?:var|let|const|int|string|bool|float|double)\s+([a-zA-Z_][a-zA-Z0-9_]*)
    [type |-> "variable", groups |-> 1, re |->
        <<WordB, Alt(<<<<Str("var")>>, <<Str("let")>>, <<Str("const")>>,
          <<Str("int")>>, <<Str("string")>>, <<Str("bool")>>,
          <<Str("float")>>, <<Str("double")>>>>), Ws1, Grp(1, <<Ident>>)>>],
    \* \b(?:import|include|require|using)\s+([a-zA-Z_][a-zA-Z0-9_\.\*]+)
    [type |-> "import", groups |-> 1, re |->
        <<WordB, Alt(<<<<Str("import")>>, <<Str("include")>>,
          <<Str("require")>>, <<Str("using")>>>>), Ws1, Grp(1,
          <<In(Lowers \cup Uppers \cup {"_"}), Rep(1, -1,
          <<In(Lowers \cup Uppers \cup Digits \cup {"_", ".", "*"})>>)>>)>>],
    \* \b(?:open|fopen|read|write|readFile|writeFile|fs\.read|fs\.write)\s*\(
    [type |-> "file_operation", groups |-> 0, re |->
        <<WordB, Alt(<<<<Str("open")>>, <<Str("fopen")>>, <<Str("read")>>,
          <<Str("write")>>, <<Str("readFile")>>, <<Str("writeFile")>>,
          <<Str("fs.read")>>, <<Str("fs.write")>>>>), Ws0, Lit("(")>>]>>

sql_patterns == <<
    \* (?:SELECT|select)\s+.*?\s+(?:FROM|from)\s+([a-zA-Z_][a-zA-Z0-9_]*)
    [type |-> "select", groups |-> 1, re |->
        <<Alt(<<<<Str("SELECT")>>, <<Str("select")>>>>), Ws1, Lazy(0, -1,
          <<AnyChar>>), Ws1, Alt(<<<<Str("FROM")>>, <<Str("from")>>>>), Ws1,
          Grp(1, <<Ident>>)>>],
    \* (?:INSERT|insert)\s+(?:INTO|into)\s+([a-zA-Z_][a-zA-Z0-9_]*)
    [type |-> "insert", groups |-> 1, re |->
        <<Alt(<<<<Str("INSERT")>>, <<Str("insert")>>>>), Ws1,
          Alt(<<<<Str("INTO")>>, <<Str("into")>>>>), Ws1, Grp(1, <<Ident>>)>>],
    \* (?:UPDATE|update)\s+([a-zA-Z_][a-zA-Z0-9_]*)
    [type |-> "update", groups |-> 1, re |->
        <<Alt(<<<<Str("UPDATE")>>, <<Str("update")>>>>), Ws1, Grp(1,
          <<Ident>>)>>],
    \* (?:DELETE|delete)\s+(?:FROM|from)\s+([a-zA-Z_][a-zA-Z0-9_]*)
    [type |-> "delete", groups |-> 1, re |->
        <<Alt(<<<<Str("DELETE")>>, <<Str("delete")>>>>), Ws1,
          Alt(<<<<Str("FROM")>>, <<Str("from")>>>>), Ws1, Grp(1, <<Ident>>)>>]>>

\* patterns.get(language, default_patterns)
lang_patterns(lang) ==
    CASE lang = "cobol" -> cobol_patterns
      [] lang = "python" -> python_patterns
      [] lang = "java" -> java_patterns
      [] lang = "javascript" -> javascript_patterns
      [] lang = "c" -> c_patterns
      [] lang = "sql" -> sql_script_patterns
      [] OTHER -> default_patterns

-----------------------------------------------------------------------------
(* CodeParser.extract_with_regex                                           *)

\* What a part of the extraction appends to entities and to relationships.
Found(entities, relationships) ==
    [entities |-> entities, relationships |-> relationships]
Nothing == Found(<<>>, <<>>)
Join(a, b) ==
    Found(a.entities \o b.entities, a.relationships \o b.relationships)
RECURSIVE JoinAll(_)
JoinAll(outs) ==
    IF outs = <<>> THEN Nothing ELSE Join(Head(outs), JoinAll(Tail(outs)))

\* str.isalnum()
IsAlnum(s) ==
    s # "" /\ \A i \in 1..Len(s) : Ch(s, i) \in Lowers \cup Uppers \cup Digits

Max(a, b) == IF a >= b THEN a ELSE b
Min(a, b) == IF a <= b THEN a ELSE b

\* The special entity for the file itself.
FileEntity(text, lang, path) ==
    LET header == /\ lang \in {"c", "cpp"}
                  /\ \/ EndsWith(path, ".h")
                     \/ EndsWith(path, ".hpp")
                     \/ EndsWith(path, ".hxx")
    IN  CodeEntity(Basename(path),
                   IF header THEN "header_file" ELSE "module",
                   path,
                   (IF header THEN "Header file " ELSE "Source file ") \o path,
                   VDict(<< <<"path", VStr(path)>>,
                            <<"language", VStr(lang)>>,
                            <<"line_count", VInt(CountChar(text, "\n") + 1)>> >>))

IncludeTypes == {"include", "system_include", "project_include"}

\* An include of C: a header entity and an includes relationship.
IncludeOutput(kind, name, line_start, syntax, text, path) ==
    Found(<<CodeEntity(name, kind \o "_header", path,
                       StrCapitalize(kind) \o " header " \o name,
                       VDict(<< <<"line_number", VInt(line_start)>>,
                                <<"include_type", VStr(kind)>>,
                                <<"include_syntax", VStr(syntax)>> >>))>>,
          <<CodeRelationship(Basename(path), name, "includes",
                             path \o " includes " \o kind \o " header " \o name)>>)

\* The entity of a match of a pattern of the table, with its properties.
PatternEntity(entity_type, name, line_start, line_end, context_code, path) ==
    CodeEntity(name, entity_type, path,
               StrCapitalize(entity_type) \o " '" \o name \o "' in "
                   \o Basename(path),
               VDict(<< <<"line_number", VInt(line_start)>>,
                        <<"code_length", VInt(line_end - line_start)>>,
                        <<"context_sample",
                          VStr(IF Len(context_code) > 200
                               THEN Slice(context_code, 0, 200)
                               ELSE context_code)>> >>))

\* What the body of the loop over the matches appends for the match m of
\* the pattern of one row, which captured name and starts on line_start.
CapturedOutput(entity_type, name, line_start, syntax, m, text, lang, path) ==
    LET line_end == line_start + CountChar(Group0(text, m), "\n") + 1
        start_pos == Max(0, (m.start - 1) - 100)
        end_pos == Min(Len(text), (m.end - 1) + 100)
        entity == PatternEntity(entity_type, name, line_start, line_end,
                                Slice(text, start_pos, end_pos), path)
        defines ==
            CodeRelationship(Basename(path), name, "defines",
                             "File " \o Basename(path) \o " defines "
                                 \o entity_type \o " " \o name)
        imports ==
            CodeRelationship(Basename(path), name, "imports",
                             "Python module " \o Basename(path) \o " imports " \o name)
    IN  IF Len(name) <= 1 /\ ~IsAlnum(name) THEN Nothing
        ELSE IF entity_type \in IncludeTypes
        THEN IF \/ entity_type = "system_include"
                \/ (entity_type = "include" /\ StartsWith(syntax, "#include <"))
             THEN IncludeOutput("system", name, line_start, syntax, text, path)
             ELSE IF \/ entity_type = "project_include"
                     \/ (entity_type = "include" /\ StartsWith(syntax, "#include \""))
             THEN IncludeOutput("project", name, line_start, syntax, text, path)
             ELSE Nothing
        ELSE Found(<<entity>>,
                   IF lang = "python" /\ entity_type \in {"import", "from_import"}
                   THEN <<defines, imports>>
                   ELSE <<defines>>)

MatchOutput(row, m, text, lang, path) ==
    CapturedOutput(row.type, GroupN(text, m, 1),
                   CountChar(SubSeq(text, 1, m.start - 1), "\n") + 1,
                   StrStrip(Group0(text, m)), m, text, lang, path)

\* The loop over the matches of one row; match.group(1) of a pattern without
\* a group raises IndexError, and the match is passed over.
RowOutput(row, text, lang, path) ==
    IF row.groups = 0 THEN Nothing
    ELSE With(ReFindIter(row.re, text, IF lang = "cobol" THEN FlagsM ELSE FlagsIM),
              LAMBDA ms :
                  JoinAll([i \in 1..Len(ms) |->
                              MatchOutput(row, ms[i], text, lang, path)]))

\* Extract entities based on patterns: the loop over the rows of the table.
FirstPass(text, lang, path) ==
    With(lang_patterns(lang),
         LAMBDA table :
             JoinAll([r \in 1..Len(table) |->
                         RowOutput(table[r], text, lang, path)]))

Callable == {"function", "method", "paragraph"}

\* r'\b' + re.escape(name) + r'\s*\('
CallPattern(name) == <<WordB, ReEscape(name), Ws0, Lit("(")>>
\* r'(?:function|def|void|int|string|bool)\s+' + re.escape(name)
\*     + r'\s*\([^{]*\)\s*\{(.*?)\}'
FunctionPattern(name) ==
    <<Alt(<< <<Str("function")>>, <<Str("def")>>, <<Str("void")>>,
             <<Str("int")>>, <<Str("string")>>, <<Str("bool")>> >>),
      Ws1, ReEscape(name), Ws0, Lit("("), Rep(0, -1, <<NotIn({"{"})>>), Lit(")"),
      Ws0, Lit("{"), Grp(1, <<Lazy(0, -1, <<AnyChar>>)>>), Lit("}")>>
\* r'\b' + re.escape(name) + r'\b'
VarPattern(name) == <<WordB, ReEscape(name), WordB>>

\* inheritance_patterns.get(language): the pattern, or <<>> for None
InheritancePattern(lang, name) ==
    CASE lang = "python" ->
           \* r'class\s+' + re.escape(name) + r'\s*\(\s*([a-zA-Z_][a-zA-Z0-9_]*)\s*\)'
           <<Str("class"), Ws1, ReEscape(name), Ws0, Lit("("), Ws0,
             Grp(1, <<Ident>>), Ws0, Lit(")")>>
      [] lang \in {"java", "javascript", "php"} ->
           \* r'class\s+' + re.escape(name) + r'\s+extends\s+([a-zA-Z_][a-zA-Z0-9_]*)'
           <<Str("class"), Ws1, ReEscape(name), Ws1, Str("extends"), Ws1,
             Grp(1, <<Ident>>)>>
      [] lang = "cpp" ->
           \* r'class\s+' + re.escape(name)
           \*     + r'\s*:\s*(?:public|protected|private)\s+([a-zA-Z_][a-zA-Z0-9_]*)'
           <<Str("class"), Ws1, ReEscape(name), Ws0, Lit(":"), Ws0,
             Alt(<< <<Str("public")>>, <<Str("protected")>>, <<Str("private")>> >>),
             Ws1, Grp(1, <<Ident>>)>>
      [] OTHER -> <<>>

\* open\s*\([^,]*,\s*["\']r["\']
read_pattern ==
    <<Str("open"), Ws0, Lit("("), Rep(0, -1, <<NotIn({","})>>), Lit(","), Ws0,
    In({"\"", "'"}), Lit("r"), In({"\"", "'"})>>
\* open\s*\([^,]*,\s*["\'][wa]["\']
write_pattern ==
    <<Str("open"), Ws0, Lit("("), Rep(0, -1, <<NotIn({","})>>), Lit(","), Ws0,
    In({"\"", "'"}), In({"w", "a"}), In({"\"", "'"})>>

\* The relationships the loops over the other entities add for the callable
\* entity e, which is entities[i]: calls, then uses.  body is the match of
\* the function pattern of e in the content.
CallsAndUsesOf(entities, i, text, body) ==
    LET e == entities[i]
        RECURSIVE Calls(_)
        Calls(j) ==
            IF j > Len(entities) THEN <<>>
            ELSE (IF /\ i # j
                     /\ entities[j].entity_type \in Callable
                     /\ ReSearch(CallPattern(entities[j].name), text, FlagsM)
                  THEN <<CodeRelationship(e.name, entities[j].name, "calls",
                             "Function " \o e.name \o " calls " \o entities[j].name)>>
                  ELSE <<>>) \o Calls(j + 1)
        RECURSIVE Uses(_)
        Uses(j) ==
            IF j > Len(entities) THEN <<>>
            ELSE (IF /\ i # j
                     /\ entities[j].entity_type \in {"variable", "constant"}
                     /\ body.ok
                     /\ ReSearch(VarPattern(entities[j].name),
                                 GroupN(text, body, 1), FlagsM)
                  THEN <<CodeRelationship(e.name, entities[j].name, "uses",
                             "Function " \o e.name \o " uses variable "
                                 \o entities[j].name)>>
                  ELSE <<>>) \o Uses(j + 1)
    IN  Calls(1) \o Uses(1)

CallsAndUses(entities, i, text) ==
    CallsAndUsesOf(entities, i, text,
                   SearchFrom(FunctionPattern(entities[i].name), text, 1, FlagsMS))

\* Check for class inheritance: inherit_match is the match of the pattern of
\* the language, if it has one.
InheritanceOf(entities, i, text, inherit_match) ==
    LET e == entities[i]
        parent_class == GroupN(text, inherit_match, 1)
    IN  IF /\ inherit_match.ok
           /\ \E j \in 1..Len(entities) : entities[j].name = parent_class
        THEN <<CodeRelationship(e.name, parent_class, "inherits",
                   "Class " \o e.name \o " inherits from " \o parent_class)>>
        ELSE <<>>

Inheritance(entities, i, text, lang) ==
    With(InheritancePattern(lang, entities[i].name),
         LAMBDA pattern :
             IF pattern = <<>> THEN <<>>
             ELSE InheritanceOf(entities, i, text,
                                SearchFrom(pattern, text, 1, FlagsM)))

\* Detect file operations: open() with a mode, anywhere in the content.
FileOperations(e, text) ==
    (IF ReSearch(read_pattern, text, FlagsM)
     THEN <<CodeRelationship(e.name, "file_system", "reads_from",
                "Function " \o e.name \o " reads from files")>>
     ELSE <<>>)
    \o (IF ReSearch(write_pattern, text, FlagsM)
        THEN <<CodeRelationship(e.name, "file_system", "writes_to",
                   "Function " \o e.name \o " writes to files")>>
        ELSE <<>>)

\* Detect database operations of the function e: the tables the SQL in
\* function_text refers to.  acc holds the entities and relationships so far.
DatabaseOperationsIn(acc, e, function_text, path) ==
    LET \* one match of one SQL pattern
        Table(a, op_type, table_name) ==
            Found(IF \E k \in 1..Len(a.entities) :
                         /\ a.entities[k].name = table_name
                         /\ a.entities[k].entity_type = "database_table"
                  THEN a.entities
                  ELSE Append(a.entities,
                           CodeEntity(table_name, "database_table", path,
                               "Database table " \o table_name
                                   \o " referenced in " \o path,
                               VDict(<< <<"referenced_in",
                                          VList(<<VStr(e.name)>>)>> >>))),
                  Append(a.relationships,
                      IF op_type = "select"
                      THEN CodeRelationship(e.name, table_name, "reads_from",
                               "Function " \o e.name \o " reads from table "
                                   \o table_name)
                      ELSE CodeRelationship(e.name, table_name, "writes_to",
                               "Function " \o e.name \o " writes to table "
                                   \o table_name)))
        RECURSIVE Matches(_, _, _, _)
        Matches(a, op_type, ms, k) ==
            IF k > Len(ms) THEN a
            ELSE Matches(Table(a, op_type, GroupN(function_text, ms[k], 1)),
                         op_type, ms, k + 1)
        RECURSIVE Ops(_, _)
        Ops(a, r) ==
            IF r > Len(sql_patterns) THEN a
            ELSE Ops(Matches(a, sql_patterns[r].type,
                             ReFindIter(sql_patterns[r].re, function_text, FlagsM), 1),
                     r + 1)
    IN  Ops(acc, 1)

\* function_text is the 1000 characters from the first occurrence of the
\* name of the function on.
DatabaseOperations(acc, e, text, path) ==
    With(StrFindSub(text, e.name),
         LAMBDA function_start :
             IF function_start >= 0
             THEN DatabaseOperationsIn(acc, e,
                      Slice(text, function_start, function_start + 1000), path)
             ELSE acc)

\* The body of the loop of the relationship detection for entities[i].
EntityPass(acc, i, text, lang, path) ==
    LET entities == acc.entities
        e == entities[i]
        added ==
            (IF e.entity_type \in Callable
             THEN CallsAndUses(entities, i, text) ELSE <<>>)
            \o (IF e.entity_type = "class"
                THEN Inheritance(entities, i, text, lang) ELSE <<>>)
            \o (IF e.entity_type = "import"
                THEN <<CodeRelationship(entities[1].name, e.name, "imports",
                           "File " \o Basename(path) \o " imports " \o e.name)>>
                ELSE <<>>)
            \o (IF e.entity_type \in {"function", "method"} /\ lang = "python"
                THEN FileOperations(e, text) ELSE <<>>)
    IN  With(Found(entities, acc.relationships \o added),
             LAMBDA next :
                 IF /\ lang \in {"python", "java", "javascript", "php"}
                    /\ e.entity_type \in {"function", "method"}
                 THEN DatabaseOperations(next, e, text, path)
                 ELSE next)

\* for i, entity in enumerate(entities): the loop also visits the entities
\* its body appends.
RECURSIVE SecondPass(_, _, _, _, _)
SecondPass(acc, i, text, lang, path) ==
    IF i > Len(acc.entities) THEN acc
    ELSE SecondPass(EntityPass(acc, i, text, lang, path), i + 1, text, lang, path)

extract_with_regex(text, lang, path) ==
    With(Join(Found(<<FileEntity(text, lang, path)>>, <<>>),
              FirstPass(text, lang, path)),
         LAMBDA first :
             With(IF Len(first.entities) > 1
                  THEN SecondPass(first, 1, text, lang, path)
                  ELSE first,
                  LAMBDA all : Returned(all.entities, all.relationships)))

\* A parse_content that adds the regex results to what the model gave
\* instead of replacing it.
parse_content_additive(text, path, answer) ==
    With(detect_language(path, text), LAMBDA lang :
         With(extract_with_ai(text, lang, path, answer), LAMBDA ai :
              With(extract_with_regex(text, lang, path), LAMBDA regex :
                   IF ai.raised THEN Raised
                   ELSE IF ai.entities = <<>>
                   THEN Returned(regex.entities,
                                 ai.relationships \o regex.relationships)
                   ELSE Returned(ai.entities, ai.relationships))))

\* Parse content to extract entities and relationships using AI + regex
\* fallback, given what the generative model answers.
parse_content(text, path, answer) ==
    With(detect_language(path, text),
         LAMBDA lang :
             With(extract_with_ai(text, lang, path, answer),
                  LAMBDA ai :
                      IF ai.raised THEN Raised
                      ELSE IF ai.entities = <<>>
                      THEN extract_with_regex(text, lang, path)
                      ELSE Returned(ai.entities, ai.relationships)))

-----------------------------------------------------------------------------
(* The graph ingestor: ingest_data_to_neo4j.  The parsed data is the        *)
(* output_data of the parser; an entity of it is the dict of a CodeEntity,  *)
(* a relationship the dict of a CodeRelationship.                           *)

\* repo_id and output_data of code_parser_entrypoint, for the file file_name
\* and what parse_content returned for it.
RepoId(file_name) ==
    IF StartsWith(file_name, "cloned_repos/")
    THEN With(Slice(file_name, Len("cloned_repos/"), Len(file_name)),
              LAMBDA rest :
                  IF StrFind(rest, "/") < 0 THEN rest
                  ELSE Slice(rest, 0, StrFind(rest, "/")))
    ELSE "unknown_repo"
\* A text, or None, as a value of a query parameter or of a property.
TextValue(s) == IF s = None THEN VNull ELSE VStr(s)

\* bool(v) of Python
Truthy(v) ==
    CASE v = VNull -> FALSE
      [] IsStr(v) -> v.str # ""
      [] IsList(v) -> v.list # <<>>
      [] IsDict(v) -> v.dict # <<>>
      [] DOMAIN v = {"int"} -> v.int # 0
      [] DOMAIN v = {"bool"} -> v.bool

\* CodeEntity.to_dict: the dict of the fields, without the properties if
\* they are empty (or any other value that is not true).
Absent == [absent |-> TRUE]
to_dict(entity) ==
    IF Truthy(entity.properties) THEN entity
    ELSE [entity EXCEPT !.properties = Absent]
output_data(file_name, out) ==
    [repo_id |-> RepoId(file_name), filename |-> file_name,
     entities |-> [i \in 1..Len(out.entities) |-> to_dict(out.entities[i])],
     relationships |-> out.relationships]
\* entity.get('properties', {})
GetProperties(entity) ==
    IF entity.properties = Absent THEN VDict(<<>>) ELSE entity.properties

\* str(n) of an integer
RECURSIVE IntToStr(_)
IntToStr(n) ==
    IF n < 0 THEN "-" \o IntToStr(0 - n)
    ELSE IF n < 10 THEN SubSeq("0123456789", n + 1, n + 1)
    ELSE IntToStr(n \div 10) \o SubSeq("0123456789", (n % 10) + 1, (n % 10) + 1)

\* json.dumps(s) of a text: quoted, with the escapes of JSON. (The texts of
\* the model hold no other control character and no character beyond
\* ASCII, which json.dumps writes as \b or \uXXXX.)
JsonQuote(s) ==
    LET Escaped(c) ==
            CASE c = "\"" -> "\\\""
              [] c = "\\" -> "\\\\"
              [] c = "\n" -> "\\n"
              [] c = "\r" -> "\\r"
              [] c = "\t" -> "\\t"
              [] c = "\f" -> "\\f"
              [] OTHER -> c
        RECURSIVE Esc(_)
        Esc(i) == IF i > Len(s) THEN "" ELSE Escaped(Ch(s, i)) \o Esc(i + 1)
    IN  "\"" \o Esc(1) \o "\""

\* json.dumps(v)
RECURSIVE JsonDumps(_)
JsonDumps(v) ==
    LET RECURSIVE Items(_, _)
        Items(xs, i) ==
            IF i > Len(xs) THEN ""
            ELSE (IF i > 1 THEN ", " ELSE "") \o JsonDumps(xs[i]) \o Items(xs, i + 1)
        RECURSIVE Pairs(_, _)
        Pairs(kvs, i) ==
            IF i > Len(kvs) THEN ""
            ELSE (IF i > 1 THEN ", " ELSE "") \o JsonQuote(kvs[i][1]) \o ": "
                     \o JsonDumps(kvs[i][2]) \o Pairs(kvs, i + 1)
    IN  CASE v = VNull -> "null"
          [] IsStr(v) -> JsonQuote(v.str)
          [] IsList(v) -> "[" \o Items(v.list, 1) \o "]"
          [] IsDict(v) -> "{" \o Pairs(v.dict, 1) \o "}"
          [] DOMAIN v = {"int"} -> IntToStr(v.int)
          [] DOMAIN v = {"bool"} -> IF v.bool THEN "true" ELSE "false"

\* os.path.splitext(p)[1]: from the last dot of the base name on, if a
\* character other than a dot precedes it there
SplitExt(p) ==
    With(StrRFind(p, "."),
         LAMBDA dot :
             IF /\ dot > StrRFind(p, "/")
                /\ \E i \in (StrRFind(p, "/") + 1)..(dot - 1) : Ch(p, i + 1) # "."
             THEN Slice(p, dot, Len(p))
             ELSE "")

\* Classify file type
FileType(file_extension) ==
    CASE file_extension \in {".py"} -> "PythonModule"
      [] file_extension \in {".js", ".jsx", ".ts", ".tsx"} -> "JavaScriptModule"
      [] file_extension \in {".java"} -> "JavaClass"
      [] file_extension \in {".html", ".xml", ".json", ".yaml", ".yml"} -> "DataFile"
      [] OTHER -> "SourceFile"

label_mapping == <<
    <<"function", "Function">>, <<"method", "Function">>,
    <<"variable", "Variable">>, <<"struct", "Struct">>, <<"record", "Record">>,
    <<"type", "Type">>, <<"module", "Module">>, <<"file", "Module">>,
    <<"class", "Class">>, <<"object", "Object">>,
    <<"database_table", "DatabaseTable">>, <<"entity", "Entity">>,
    <<"external_api", "ExternalAPI">>, <<"service", "Service">>,
    <<"business_rule", "BusinessRule">>, <<"requirement", "Requirement">>,
    <<"loop", "Loop">>, <<"branch", "Branch">>,
    <<"input_operation", "InputOperation">>,
    <<"output_operation", "OutputOperation">>, <<"user_input", "UserInput">>,
    <<"job", "Job">>, <<"script", "Script">>, <<"program", "Program">>,
    <<"constant", "Constant">>, <<"interface", "Interface">>,
    <<"import", "Import">>, <<"paragraph", "Paragraph">>, <<"enum", "Enum">>,
    <<"define", "Define">> >>

rel_mapping == <<
    <<"calls", "CALLS">>, <<"returns", "RETURNS">>, <<"defines", "DEFINES">>,
    <<"includes", "INCLUDES">>, <<"imports", "IMPORTS">>,
    <<"depends_on", "DEPENDS_ON">>, <<"declares", "DECLARES">>,
    <<"uses", "USES">>, <<"assigns", "ASSIGNS">>,
    <<"reads_from", "READS_FROM">>, <<"writes_to", "WRITES_TO">>,
    <<"interacts_with", "INTERACTS_WITH">>, <<"logs_to", "LOGS_TO">>,
    <<"composes", "COMPOSES">>, <<"contains", "CONTAINS">>,
    <<"extends", "EXTENDS">>, <<"inherits", "INHERITS_FROM">>,
    <<"executes", "EXECUTES">>,
    <<"calls_with_input_from", "CALLS_WITH_INPUT_FROM">>,
    <<"satisfies", "SATISFIES">>, <<"triggered_by", "TRIGGERED_BY">>,
    <<"controls_flow_to", "CONTROLS_FLOW_TO">>, <<"spawns", "SPAWNS">>,
    <<"allocates", "ALLOCATES">>, <<"deallocates", "DEALLOCATES">>,
    <<"implements", "IMPLEMENTS">>, <<"overrides", "OVERRIDES">> >>

\* ^[A-Za-z][A-Za-z0-9_]*$
identifier_pattern ==
    <<Bol, In(Lowers \cup Uppers),
      Rep(0, -1, <<In(Lowers \cup Uppers \cup Digits \cup {"_"})>>), Eol>>

\* The label of the node of an entity of type entity_type: the label of the
\* table, or the capitalized type, or Entity where that is no identifier.
NodeLabel(entity_type) ==
    With(IF entity_type # "" THEN StrLower(entity_type) ELSE "entity",
         LAMBDA entity_type_str :
             With(DictGet(label_mapping, entity_type_str,
                          StrCapitalize(entity_type_str)),
                  LAMBDA node_label :
                      IF ReMatch(identifier_pattern, node_label, NoFlags).ok
                      THEN node_label ELSE "Entity"))

\* re.sub(r'[^A-Z_]', '', s)
OnlyUpper(s) ==
    LET RECURSIVE Keep(_)
        Keep(i) ==
            IF i > Len(s) THEN ""
            ELSE (IF Ch(s, i) \in Uppers \cup {"_"} THEN Ch(s, i) ELSE "")
                     \o Keep(i + 1)
    IN  Keep(1)

\* The type of the edge of a relationship of type rel_type: the type of the
\* table, or the type in upper case, without what is no letter A-Z or "_".
SanitizedRelType(rel_type) ==
    With(IF rel_type # "" THEN StrLower(rel_type) ELSE "related_to",
         LAMBDA rel_type_str :
             OnlyUpper(StrUpper(DictGet(rel_mapping, rel_type_str, rel_type_str))))

-----------------------------------------------------------------------------
(* The graph store, as the queries of the ingestor see it: nodes with one  *)
(* label and a dict of properties, in the order of their creation, and     *)
(* directed edges between them. A node is named by its position.           *)

Node(label, props) == [label |-> label, props |-> props]
Edge(from, type, to, context) ==
    [from |-> from, type |-> type, to |-> to, context |-> context]
EmptyGraph == [nodes |-> <<>>, edges |-> <<>>]

\* A name as Cypher reads it in a query text: white space ends it.
CypherToken(text) == RStrip(text)

\* SET n.key = value: a null value removes the property
SetProperty(props, key, value) ==
    IF value = VNull THEN SelectSeq(props, LAMBDA kv : kv[1] # key)
    ELSE DictSet(props, key, value)
RECURSIVE SetProperties(_, _, _)
SetProperties(props, sets, k) ==
    IF k > Len(sets) THEN props
    ELSE SetProperties(SetProperty(props, sets[k][1], sets[k][2]), sets, k + 1)

\* MATCH (n:label {key: value, ...}): the nodes of that label (of any label
\* for None) with these properties; no node has a property equal to null.
Matching(g, label, keys) ==
    {i \in 1..Len(g.nodes) :
        /\ label = None \/ g.nodes[i].label = label
        /\ \A k \in 1..Len(keys) :
               /\ keys[k][2] # VNull
               /\ DictGet(g.nodes[i].props, keys[k][1], VNull) = keys[k][2]}

\* SET of the properties sets on the nodes ids
SetOn(g, ids, sets) ==
    [g EXCEPT !.nodes =
        [i \in 1..Len(g.nodes) |->
            IF i \in ids
            THEN Node(g.nodes[i].label, SetProperties(g.nodes[i].props, sets, 1))
            ELSE g.nodes[i]]]

\* CREATE (n:label {keys}) SET on_create: a new node whatever the store holds
CreateNode(g, label, keys, on_create, on_match) ==
    [g EXCEPT !.nodes =
        Append(@, Node(label, SetProperties(keys, on_create, 1)))]

\* MERGE (n:label {keys}) ON CREATE SET on_create ON MATCH SET on_match
MergeNode(g, label, keys, on_create, on_match) ==
    IF Matching(g, label, keys) = {}
    THEN [g EXCEPT !.nodes =
             Append(@, Node(label, SetProperties(keys, on_create, 1)))]
    ELSE SetOn(g, Matching(g, label, keys), on_match)

\* The members of a set of numbers, in order
InOrder(S) ==
    [r \in 1..Cardinality(S) |->
        CHOOSE x \in S : Cardinality({y \in S : y < x}) = r - 1]

\* MERGE (a)-[r:type]->(b) for every a of froms and b of tos, followed by
\* SET r.context = context where set_context
MergeEdge(g, froms, type, tos, set_context, context) ==
    LET F == InOrder(froms)
        T == InOrder(tos)
        pairs == [k \in 1..(Len(F) * Len(T)) |->
                     <<F[((k - 1) \div Len(T)) + 1], T[((k - 1) % Len(T)) + 1]>>]
        Joins(e, p) == e.from = p[1] /\ e.type = type /\ e.to = p[2]
        Merged(e) == \E k \in 1..Len(pairs) : Joins(e, pairs[k])
        Missing(p) == \A i \in 1..Len(g.edges) : ~Joins(g.edges[i], p)
        created == SelectSeq(pairs, Missing)
    IN  [g EXCEPT !.edges =
            [i \in 1..Len(g.edges) |->
                IF set_context /\ Merged(g.edges[i])
                THEN [g.edges[i] EXCEPT !.context = context] ELSE g.edges[i]]
            \o [k \in 1..Len(created) |->
                   Edge(created[k][1], type, created[k][2],
                        IF set_context THEN context ELSE VNull)]]

-----------------------------------------------------------------------------
(* The session: the graph, the queries run on it so far, the texts an       *)
(* embedding was requested for, and whether the ingestion has raised. A    *)
(* query is its text, its parameters, and the                              *)
(* pieces of the text that were put into it: labels, edge types and the    *)
(* keys of properties.                                                     *)

Query(text, params, labels, types, keys) ==
    [text |-> text, params |-> params, labels |-> labels, types |-> types,
     keys |-> keys]
Session(g) ==
    [graph |-> g, queries |-> <<>>, embedded |-> <<>>, raised |-> FALSE]
\* session.run(query), with new_graph the graph after it
SessionRun(st, query, new_graph) ==
    [st EXCEPT !.graph = new_graph, !.queries = Append(@, query)]
Raise(st) == [st EXCEPT !.raised = TRUE]

\* generate_embeddings(description): the vector of the embedding model for
\* the text, or [] where the model fails. The embedding model takes texts
\* and raises for a description that is None; the except clause then
\* raises itself, on text[:50].
generate_embeddings(description, embeds) ==
    IF description = None THEN [raised |-> TRUE, values |-> VList(<<>>)]
    ELSE IF embeds
    THEN [raised |-> FALSE,
          values |-> VList(<<VStr("embedding of " \o description)>>)]
    ELSE [raised |-> FALSE, values |-> VList(<<>>)]

\* Create the File node with appropriate type
FileQuery(file_type, filename, repo_id, file_extension) ==
    Query("MERGE (f:" \o file_type \o " {path: $filename}) SET f.repo_id = "
              \o "$repo_id, f.name = $file_name, f.extension = $extension",
          << <<"filename", VStr(filename)>>, <<"repo_id", TextValue(repo_id)>>,
             <<"file_name", VStr(Basename(filename))>>,
             <<"extension", VStr(file_extension)>> >>,
          <<file_type>>, <<>>, <<>>)
RunFileQuery(st, q) ==
    With(MergeNode(st.graph, CypherToken(q.labels[1]),
                   << <<"path", DictGet(q.params, "filename", VNull)>> >>,
                   <<>>, <<>>),
         LAMBDA g :
             SessionRun(st, q,
                 SetOn(g, Matching(g, CypherToken(q.labels[1]),
                                   << <<"path", DictGet(q.params, "filename", VNull)>> >>),
                       << <<"repo_id", DictGet(q.params, "repo_id", VNull)>>,
                          <<"name", DictGet(q.params, "file_name", VNull)>>,
                          <<"extension", DictGet(q.params, "extension", VNull)>> >>)))

-----------------------------------------------------------------------------
(* ingest_data_to_neo4j: the entities                                      *)

\* property_params and property_cypher of an entity: sets holds, for every
\* assignment of property_cypher, the property and the parameter it names;
\* keys holds the keys of properties that were put into the text.
PropertyStart(entity, filename, repo_id, embeds) ==
    [cypher |-> "", sets |-> <<>>, keys |-> <<>>,
     params |-> << <<"file_path", TextValue(entity.file_path)>>,
                   <<"name", TextValue(entity.name)>>,
                   <<"description", TextValue(entity.description)>>,
                   <<"embedding",
                     generate_embeddings(entity.description, embeds).values>>,
                   <<"repo_id", TextValue(repo_id)>> >>]

\* Add original_name if available, add source_file if available
PropertyNamed(acc, properties, key) ==
    IF Truthy(DictGet(properties, key, VNull))
    THEN [acc EXCEPT !.params = DictSet(@, key, DictGet(properties, key, VNull)),
                     !.cypher = @ \o ", e." \o key \o " = $" \o key,
                     !.sets = Append(@, <<key, key>>)]
    ELSE acc

\* Add enhanced properties to Neo4j
RECURSIVE PropertyOthers(_, _, _)
PropertyOthers(acc, properties, i) ==
    IF i > Len(properties) THEN acc
    ELSE With(properties[i],
              LAMBDA kv :
                  IF kv[1] \in {"original_name", "source_file"}
                  THEN PropertyOthers(acc, properties, i + 1)
                  ELSE IF kv[2] # VNull
                          /\ ReMatch(identifier_pattern, kv[1], NoFlags).ok
                  THEN PropertyOthers(
                           [acc EXCEPT
                               !.cypher = @ \o ", e." \o kv[1] \o " = $" \o kv[1],
                               !.params = DictSet(@, kv[1],
                                   IF IsList(kv[2]) \/ IsDict(kv[2])
                                   THEN VStr(JsonDumps(kv[2])) ELSE kv[2]),
                               !.sets = Append(@, <<kv[1], kv[1]>>),
                               !.keys = Append(@, kv[1])],
                           properties, i + 1)
                  ELSE PropertyOthers(acc, properties, i + 1))

EntityProperties(entity, filename, repo_id, embeds) ==
    With(GetProperties(entity).dict, LAMBDA properties :
        PropertyOthers(
            PropertyNamed(
                PropertyNamed(PropertyStart(entity, filename, repo_id, embeds),
                              properties, "original_name"),
                properties, "source_file"),
            properties, 1))

\* cypher of an entity
EntityQuery(file_type, node_label, p) ==
    Query("\n        MATCH (f:" \o file_type \o " {path: $file_path})"
              \o "\n        MERGE (e:" \o node_label
              \o " {name: $name, file_path: $file_path})"
              \o "\n        ON CREATE SET e.description = $description, "
              \o "e.embedding = $embedding, e.repo_id = $repo_id" \o p.cypher
              \o "\n        ON MATCH SET e.description = $description, "
              \o "e.embedding = $embedding, e.repo_id = $repo_id" \o p.cypher
              \o "\n        MERGE (f)-[:CONTAINS]->(e)\n        ",
          p.params, <<file_type, node_label>>, <<>>, p.keys)

\* What the store does with the cypher of an entity whose assignments are
\* sets: it refuses a query that names a parameter it was not given, and to
\* merge a node on a property that is null.
RunEntityQuery(st, q, sets) ==
    LET Param(name) == DictGet(q.params, CypherToken(name), VNull)
        all_sets == << <<"description", "description">>,
                       <<"embedding", "embedding">>,
                       <<"repo_id", "repo_id">> >> \o sets
        values == [k \in 1..Len(all_sets) |->
                      <<CypherToken(all_sets[k][1]), Param(all_sets[k][2])>>]
        keys == << <<"name", Param("name")>>, <<"file_path", Param("file_path")>> >>
        files == Matching(st.graph, CypherToken(q.labels[1]),
                          << <<"path", Param("file_path")>> >>)
        merged == MergeNode(st.graph, CypherToken(q.labels[2]), keys,
                            values, values)
    IN  IF \/ \E k \in 1..Len(all_sets) :
                  ~DictHas(q.params, CypherToken(all_sets[k][2]))
           \/ files # {} /\ \E k \in 1..Len(keys) : keys[k][2] = VNull
        THEN Raise(SessionRun(st, q, st.graph))
        ELSE IF files = {} THEN SessionRun(st, q, st.graph)
        ELSE SessionRun(st, q,
                 MergeEdge(merged, files, "CONTAINS",
                           Matching(merged, CypherToken(q.labels[2]), keys),
                           FALSE, VNull))

\* generate_embeddings(description) is called
Embedded(st, description) ==
    [st EXCEPT !.embedded = Append(@, TextValue(description))]

\* The body of the loop over the entities for an entity that is no import:
\* it raises where generate_embeddings does, and at properties.get for
\* properties that are no dict.
IngestEntity(st, entity, file_type, filename, repo_id, embeds) ==
    IF \/ generate_embeddings(entity.description, embeds).raised
       \/ ~IsDict(GetProperties(entity))
    THEN Raise(Embedded(st, entity.description))
    ELSE With(EntityProperties(entity, filename, repo_id, embeds),
              LAMBDA p :
                  RunEntityQuery(Embedded(st, entity.description),
                      EntityQuery(file_type, NodeLabel(entity.entity_type), p),
                      p.sets))

\* entity_type.lower() == 'import'
IsImport(entity) == StrLower(entity.entity_type) = "import"

\* The loop over the entities from the k-th on; entity_type.lower() raises
\* for an entity_type that is None.
RECURSIVE IngestEntities(_, _, _, _, _, _, _)
IngestEntities(st, entities, k, file_type, filename, repo_id, embeds) ==
    IF st.raised \/ k > Len(entities) THEN st
    ELSE IF entities[k].entity_type = None THEN Raise(st)
    ELSE IF IsImport(entities[k])
    THEN IngestEntities(st, entities, k + 1, file_type, filename, repo_id, embeds)
    ELSE IngestEntities(
             IngestEntity(st, entities[k], file_type, filename, repo_id, embeds),
             entities, k + 1, file_type, filename, repo_id, embeds)

-----------------------------------------------------------------------------
(* ingest_data_to_neo4j: the imports, the relationships, and the whole     *)

\* str(v) in an f-string, for a text, a number, a truth value or None
PyStr(v) ==
    CASE IsStr(v) -> v.str
      [] v = VNull -> "None"
      [] DOMAIN v = {"int"} -> IntToStr(v.int)
      [] DOMAIN v = {"bool"} -> IF v.bool THEN "True" ELSE "False"

\* Check if the imported file exists in our database
LookupQuery(import_name) ==
    Query("\n            MATCH (f) \n            WHERE f.name = $import_name "
              \o "OR f.path ENDS WITH $import_name\n            RETURN f.path "
              \o "as path, f.name as name, count(f) as count\n            ",
          << <<"import_name", TextValue(import_name)>> >>, <<>>, <<>>, <<>>)
\* The nodes the query counts
LookupRows(g, import_name) ==
    {i \in 1..Len(g.nodes) :
        /\ import_name # None
        /\ \/ DictGet(g.nodes[i].props, "name", VNull) = VStr(import_name)
           \/ /\ IsStr(DictGet(g.nodes[i].props, "path", VNull))
              /\ EndsWith(DictGet(g.nodes[i].props, "path", VNull).str,
                          import_name)}
\* A lookup that finds no node, whatever the store holds
LookupNeverFound(g, import_name) == FALSE
\* result and result["count"] > 0: single() gives the first row, and the store
\* gives the rows in the order of the nodes
LookupFound(g, import_name) == LookupRows(g, import_name) # {}

\* Create the placeholder node
PlaceholderQuery(import_file_type, import_name, source_file) ==
    Query("\n                MERGE (imp:" \o import_file_type
              \o " {name: $import_name})\n                ON CREATE SET "
              \o "imp.description = $description, imp.is_placeholder = true"
              \o "\n                ",
          << <<"import_name", TextValue(import_name)>>,
             <<"description",
               VStr("External module " \o PyStr(TextValue(import_name))
                        \o " imported by "
                        \o source_file
                        \o " but not available in the repository")>> >>,
          <<import_file_type>>, <<>>, <<>>)
\* The store refuses to merge a node on a property that is null.
RunPlaceholderQuery(st, q) ==
    IF DictGet(q.params, "import_name", VNull) = VNull
    THEN Raise(SessionRun(st, q, st.graph))
    ELSE SessionRun(st, q,
             MergeNode(st.graph, CypherToken(q.labels[1]),
                       << <<"name", DictGet(q.params, "import_name", VNull)>> >>,
                       << <<"description", DictGet(q.params, "description", VNull)>>,
                          <<"is_placeholder", VBool(TRUE)>> >>,
                       <<>>))

\* The text of the query that links the file to what it imports is built with
\* str.format, which takes the braces of {name: $source_file, repo_id:
\* $repo_id} for a field and raises KeyError: no such query is ever run.
FormatRaises(st) == Raise(st)

\* The query of the placeholder of an import, lines 210-212 and 246-264
ImportPlaceholder(import_entity, filename) ==
    LET properties == GetProperties(import_entity).dict
        is_standard_library ==
            Truthy(DictGet(properties, "is_standard_library", VBool(FALSE)))
        source_file ==
            PyStr(DictGet(properties, "source_file", VStr(Basename(filename))))
    IN  PlaceholderQuery(IF is_standard_library THEN "StandardLibrary"
                         ELSE "ExternalModule",
                         import_entity.name, source_file)

\* The body of the loop over the imports
IngestImport(st, import_entity, filename) ==
    LET import_name == import_entity.name
        looked == SessionRun(st, LookupQuery(import_name), st.graph)
    IN  IF ~IsDict(GetProperties(import_entity)) THEN Raise(st)
        ELSE IF LookupFound(st.graph, import_name) THEN FormatRaises(looked)
        ELSE With(RunPlaceholderQuery(looked,
                      ImportPlaceholder(import_entity, filename)),
                  LAMBDA placed :
                      IF placed.raised THEN placed ELSE FormatRaises(placed))

RECURSIVE IngestImports(_, _, _, _)
IngestImports(st, import_entities, k, filename) ==
    IF st.raised \/ k > Len(import_entities) THEN st
    ELSE IngestImports(IngestImport(st, import_entities[k], filename),
                       import_entities, k + 1, filename)

\* cypher of a relationship
RelationshipQuery(sanitized_rel_type, rel, filename) ==
    Query("\n        MATCH (source {name: $source_name, file_path: $filename})"
              \o "\n        MATCH (target {name: $target_name, file_path: "
              \o "$filename})\n        MERGE (source)-[r:" \o sanitized_rel_type
              \o "]->(target)\n        SET r.context = $context\n        ",
          << <<"source_name", TextValue(rel.source)>>,
             <<"target_name", TextValue(rel.target)>>,
             <<"filename", VStr(filename)>>,
             <<"context", TextValue(rel.context)>> >>,
          <<>>, <<sanitized_rel_type>>, <<>>)
RunRelationshipQuery(st, q) ==
    LET Ends(name) ==
            << <<"name", DictGet(q.params, name, VNull)>>,
               <<"file_path", DictGet(q.params, "filename", VNull)>> >>
    IN  SessionRun(st, q,
            MergeEdge(st.graph, Matching(st.graph, None, Ends("source_name")),
                      CypherToken(q.types[1]),
                      Matching(st.graph, None, Ends("target_name")),
                      TRUE, DictGet(q.params, "context", VNull)))

\* The loop over the relationships from the k-th on; rel_type.lower() raises
\* for a relationship_type that is None.
RECURSIVE IngestRelationships(_, _, _, _)
IngestRelationships(st, relationships, k, filename) ==
    IF st.raised \/ k > Len(relationships) THEN st
    ELSE With(relationships[k],
         LAMBDA rel :
             IF rel.relationship_type = None THEN Raise(st)
             ELSE IF \/ StrLower(rel.relationship_type) = "imports"
                     \/ rel.source \in {None, ""}
                     \/ rel.target \in {None, ""}
                     \/ SanitizedRelType(rel.relationship_type) = ""
             THEN IngestRelationships(st, relationships, k + 1, filename)
             ELSE IngestRelationships(
                      RunRelationshipQuery(st,
                          RelationshipQuery(
                              SanitizedRelType(rel.relationship_type),
                              rel, filename)),
                      relationships, k + 1, filename))

\* The import entities the loop over the entities has collected when it ends
ImportEntities(entities) ==
    SelectSeq(entities, LAMBDA e : e.entity_type # None /\ IsImport(e))

\* ingest_data_to_neo4j(parsed_data, session) on a session whose store holds
\* the graph g: the session after it. embeds tells whether the embedding
\* model answers.
IngestFile(parsed_data, g, embeds, file_extension) ==
    IngestRelationships(
        IngestImports(
            IngestEntities(
                RunFileQuery(Session(g),
                    FileQuery(FileType(file_extension), parsed_data.filename,
                              parsed_data.repo_id, file_extension)),
                parsed_data.entities, 1, FileType(file_extension),
                parsed_data.filename, parsed_data.repo_id, embeds),
            ImportEntities(parsed_data.entities), 1, parsed_data.filename),
        parsed_data.relationships, 1, parsed_data.filename)
ingest_data_to_neo4j(parsed_data, g, embeds) ==
    IF parsed_data.filename \in {None, ""} THEN Session(g)
    ELSE IngestFile(parsed_data, g, embeds,
                    StrLower(SplitExt(parsed_data.filename)))

-----------------------------------------------------------------------------
(* ingest_data_to_neo4j, a query of the store at a step. A run of it is    *)
(* the record, the embedding model's state, the query it is at (of the     *)
(* file, of entity k, the lookup or the placeholder of import k, of        *)
(* relationship k), and whether it has raised. Each session.run is         *)
(* committed by itself, so the queries of two runs on one store            *)
(* interleave.                                                             *)
-----------------------------------------------------------------------------
Run(parsed_data, embeds, at, k, raised) ==
    [record |-> parsed_data, embeds |-> embeds, at |-> at, k |-> k,
     raised |-> raised]
Done(run, raised) == [run EXCEPT !.at = "done", !.k = 0, !.raised = raised]
RunFileType(run) == FileType(StrLower(SplitExt(run.record.filename)))

\* The code between two calls the run waits for: from the place in a loop
\* the run has come to, up to its next query or, for an entity that is no
\* import, to the call of generate_embeddings (line 160), or to its end.
RECURSIVE Settle(_)
Settle(run) ==
    CASE run.at = "entity" ->
           IF run.k > Len(run.record.entities)
           THEN Settle([run EXCEPT !.at = "lookup", !.k = 1])
           ELSE IF run.record.entities[run.k].entity_type = None
           THEN Done(run, TRUE)
           ELSE IF IsImport(run.record.entities[run.k])
           THEN Settle([run EXCEPT !.k = @ + 1])
           ELSE [run EXCEPT !.at = "embed"]
      [] run.at = "lookup" ->
           IF run.k > Len(ImportEntities(run.record.entities))
           THEN Settle([run EXCEPT !.at = "relationship", !.k = 1])
           ELSE IF ~IsDict(GetProperties(
                               ImportEntities(run.record.entities)[run.k]))
           THEN Done(run, TRUE)
           ELSE run
      [] run.at = "relationship" ->
           IF run.k > Len(run.record.relationships) THEN Done(run, FALSE)
           ELSE With(run.record.relationships[run.k], LAMBDA rel :
                    IF rel.relationship_type = None THEN Done(run, TRUE)
                    ELSE IF \/ StrLower(rel.relationship_type) = "imports"
                            \/ rel.source \in {None, ""}
                            \/ rel.target \in {None, ""}
                            \/ SanitizedRelType(rel.relationship_type) = ""
                    THEN Settle([run EXCEPT !.k = @ + 1])
                    ELSE run)
      [] OTHER -> run

\* A start that does not look whether there is a filename
StartRunAny(parsed_data, embeds) == Run(parsed_data, embeds, "file", 0, FALSE)
\* ingest_data_to_neo4j(parsed_data, session) up to its first query
StartRun(parsed_data, embeds) ==
    IF parsed_data.filename \in {None, ""}
    THEN Run(parsed_data, embeds, "done", 0, FALSE)
    ELSE Run(parsed_data, embeds, "file", 0, FALSE)

\* The run after the query it is at, when the session of the query is st
\* after it: at the next query of the loop, or ended by what the query raised.
After(run, st, at, k) ==
    IF st.raised THEN Done(run, TRUE)
    ELSE Settle([run EXCEPT !.at = at, !.k = k])

\* generate_embeddings(description) of the entity the run is at, and the code
\* up to the query of the entity: the run raises where generate_embeddings
\* does, and at properties.get for properties that are no dict. The store
\* is not read.
EmbedEntity(run) ==
    With(run.record.entities[run.k], LAMBDA entity :
        [run |-> IF \/ generate_embeddings(entity.description, run.embeds).raised
                    \/ ~IsDict(GetProperties(entity))
                 THEN Done(run, TRUE)
                 ELSE [run EXCEPT !.at = "entity"],
         embedded |-> <<TextValue(entity.description)>>])

\* The query of the entity the run is at, its embedding received
EntityMerge(st, entity, file_type, filename, repo_id, embeds) ==
    With(EntityProperties(entity, filename, repo_id, embeds),
         LAMBDA p :
             RunEntityQuery(st,
                 EntityQuery(file_type, NodeLabel(entity.entity_type), p),
                 p.sets))

\* The call the run is at, on the store g: the run and the store after it,
\* the query that was run and the text an embedding was requested for.
RunStep(run, g) ==
    CASE run.at = "file" ->
           With(RunFileQuery(Session(g),
                    FileQuery(RunFileType(run), run.record.filename,
                              run.record.repo_id,
                              StrLower(SplitExt(run.record.filename)))),
                LAMBDA st : [run |-> After(run, st, "entity", 1), graph |-> st.graph,
                             queries |-> st.queries, embedded |-> st.embedded])
      [] run.at = "embed" ->
           With(EmbedEntity(run), LAMBDA next :
                    [run |-> next.run, graph |-> g,
                     queries |-> <<>>, embedded |-> next.embedded])
      [] run.at = "entity" ->
           With(EntityMerge(Session(g), run.record.entities[run.k],
                            RunFileType(run), run.record.filename,
                            run.record.repo_id, run.embeds),
                LAMBDA st :
                    [run |-> After(run, st, "entity", run.k + 1), graph |-> st.graph,
                     queries |-> st.queries, embedded |-> st.embedded])
      [] run.at = "lookup" ->
           [run |-> IF LookupFound(g, ImportEntities(run.record.entities)[run.k].name)
                    THEN Done(run, TRUE)
                    ELSE [run EXCEPT !.at = "placeholder"],
            graph |-> g,
            queries |-> <<LookupQuery(ImportEntities(run.record.entities)[run.k].name)>>,
            embedded |-> <<>>]
      [] run.at = "placeholder" ->
           With(RunPlaceholderQuery(Session(g),
                    ImportPlaceholder(ImportEntities(run.record.entities)[run.k],
                                      run.record.filename)),
                LAMBDA st : [run |-> Done(run, TRUE), graph |-> st.graph,
                             queries |-> st.queries, embedded |-> st.embedded])
      [] run.at = "relationship" ->
           With(RunRelationshipQuery(Session(g),
                    RelationshipQuery(
                        SanitizedRelType(run.record.relationships[run.k].relationship_type),
                        run.record.relationships[run.k], run.record.filename)),
                LAMBDA st :
                    [run |-> After(run, st, "relationship", run.k + 1),
                     graph |-> st.graph,
                     queries |-> st.queries, embedded |-> st.embedded])

\* The run from where it is to its end, alone on the store g.
RECURSIVE RunAlone(_, _)
RunAlone(run, g) ==
    IF run.at = "done" THEN [run |-> run, graph |-> g]
    ELSE With(RunStep(run, g), LAMBDA next : RunAlone(next.run, next.graph))

-----------------------------------------------------------------------------
(* The retrieval engine of the RAG service: retrieve_graph_context and     *)
(* retrieve_file_specific_context. What the graph store answers to a query *)
(* is an input: the query raises, or it returns rows. A row is the dict of *)
(* the columns the query returns. A retrieval is the context gathered so   *)
(* far, the stage that appended each line of it, the queries issued and   *)
(* what the store answered to each, the                                    *)
(* hits of the vector search and the index each came from, the file rows   *)
(* still to describe, the query that comes next, and what the function     *)
(* returned.                                                               *)
-----------------------------------------------------------------------------

\* "\n".join(lines) and ", ".join(lines)
RECURSIVE JoinWith(_, _)
JoinWith(sep, lines) ==
    IF lines = <<>> THEN ""
    ELSE IF Len(lines) = 1 THEN lines[1]
    ELSE lines[1] \o sep \o JoinWith(sep, Tail(lines))

\* str.split(): the runs of characters that are not white space
RECURSIVE SplitWords(_, _)
SplitWords(s, word) ==
    IF s = "" THEN IF word = "" THEN <<>> ELSE <<word>>
    ELSE IF Head(s) \in SpaceChars
         THEN (IF word = "" THEN <<>> ELSE <<word>>) \o SplitWords(Tail(s), "")
         ELSE SplitWords(Tail(s), word \o Ch(s, 1))
StrSplit(s) == SplitWords(s, "")

\* str.replace(old, ''): s without the occurrences of old, left to right
RECURSIVE StrRemove(_, _)
StrRemove(s, old) ==
    IF s = "" THEN ""
    ELSE IF StartsWith(s, old) THEN StrRemove(Slice(s, Len(old), Len(s)), old)
    ELSE Ch(s, 1) \o StrRemove(Tail(s), old)

\* An answer of the graph store to session.run(...).
Failed == [fails |-> TRUE, rows |-> <<>>]
Rows(rows) == [fails |-> FALSE, rows |-> rows]

\* context = [] and the other locals at the start of a retrieval
Retrieval(next) ==
    [context |-> <<>>, origin |-> <<>>, issued |-> <<>>, answered |-> <<>>,
     hits |-> <<>>, indexes |-> <<>>, files |-> <<>>, next |-> next,
     returned |-> None]

\* The same with context.insert(0, line).
Prepended(st, stage, line) ==
    [st EXCEPT !.context = <<line>> \o @, !.origin = <<stage>> \o @]
\* context.append(line), by the stage named
Appended(st, stage, line) ==
    [st EXCEPT !.context = Append(@, line), !.origin = Append(@, stage)]

\* session.run(...) of the query named, which the store answers with a
Issued(st, query, a) ==
    [st EXCEPT !.issued = Append(@, query), !.answered = Append(@, a)]

\* Lines 541-544: the sentinel if the context is empty, or the lines joined.
no_context == "No specific context found in the graph."
ReturnGraphContext(st) ==
    [st EXCEPT !.next = "done",
               !.returned = IF st.context = <<>> THEN no_context
                            ELSE JoinWith("\n", st.context)]

\* return "\n".join(context), lines 266, 290, 308 and 682
ReturnJoined(st) ==
    [st EXCEPT !.next = "done", !.returned = JoinWith("\n", st.context)]

\* file_operations_pattern and explain_operation_pattern, lines 243 and 246
FileNamePattern ==
    Grp(1, <<Rep(1, -1, <<In(WordChars)>>), Lit("."),
             Rep(1, -1, <<In(Lowers \cup Uppers)>>)>>)
file_operations_pattern ==
    <<Str("what "),
      Alt(<< <<Str("operations")>>, <<Str("functions")>>, <<Str("can")>>,
             <<Str("does")>> >>),
      Rep(0, -1, <<AnyChar>>),
      Alt(<< <<Str("in")>>, <<Str("with")>> >>), Lit(" "), FileNamePattern>>
explain_operation_pattern ==
    <<Str("explain"), Ws1,
      Grp(1, <<Rep(1, -1, <<In(Lowers \cup Uppers \cup Digits \cup {"_"}
                                   \cup SpaceChars)>>)>>),
      Ws1,
      Rep(0, 1, <<Alt(<< <<Str("operation")>>, <<Str("function")>>,
                         <<Str("code")>> >>)>>),
      Ws1, Str("in"), Ws1,
      [FileNamePattern EXCEPT !.n = 2]>>

file_match(user_query) ==
    SearchFrom(file_operations_pattern, user_query, 1, FlagsI)
explain_match(user_query) ==
    SearchFrom(explain_operation_pattern, user_query, 1, FlagsI)

\* Lines 435-437: the words of the query longer than two characters, in
\* lower case, that are not stop words.
stop_words ==
    {"the", "and", "for", "with", "what", "how", "why", "where", "when",
     "who", "which"}
keywords(user_query) ==
    LET long == SelectSeq(StrSplit(user_query), LAMBDA word : Len(word) > 2)
        lower == [i \in 1..Len(long) |-> StrLower(long[i])]
    IN  SelectSeq(lower, LAMBDA word : word \notin stop_words)

\* The fence of a code block, three grave accents in the code. A TLA+
\* string cannot hold a grave accent: the model writes a tilde for it, a
\* character no text of the model holds otherwise.
Fence == "~~~"

\* The text a stage makes of a row, lines 349-363, 391-399, 423-431, 451-458
\* and 471-478. entity_type.lower() raises if the type is null.
CodeBlock(res) ==
    IF Truthy(DictGet(res, "code", VStr("")))
    THEN "\nCode:\n" \o Fence \o "\n" \o PyStr(DictGet(res, "code", VStr(""))) \o "\n" \o Fence
    ELSE ""
TypeOf(res) == DictGet(res, "type", VStr("Entity"))
InFile(res) ==
    "In file '" \o PyStr(DictGet(res, "filePath", VStr("unknown path")))
        \o "', there is a " \o StrLower(TypeOf(res).str) \o " called '"
        \o PyStr(DictGet(res, "name", VNull)) \o "'. "
        \o PyStr(DictGet(res, "description", VStr("")))
NamedIn(res) ==
    StrLower(TypeOf(res).str) \o " named '" \o PyStr(DictGet(res, "name", VNull))
        \o "' in '" \o PyStr(DictGet(res, "filePath", VNull)) \o "'"
HitLine(stage, res) ==
    CASE stage = "vector" ->
           IF Truthy(DictGet(res, "code", VStr("")))
              /\ StrLower(TypeOf(res).str) = "operation"
           THEN "Operation in file '"
                    \o PyStr(DictGet(res, "filePath", VStr("unknown path")))
                    \o "': " \o PyStr(DictGet(res, "description", VStr("")))
                    \o CodeBlock(res)
           ELSE InFile(res) \o CodeBlock(res)
      [] stage = "traversal" ->
           "Via graph traversal: " \o InFile(res) \o CodeBlock(res)
      [] stage = "path" ->
           "Via path connection: " \o InFile(res) \o CodeBlock(res)
      [] stage = "keyword_name" ->
           "Found a " \o NamedIn(res) \o " that matches your query. "
               \o PyStr(DictGet(res, "description", VStr(""))) \o CodeBlock(res)
      [] stage = "keyword_description" ->
           "The " \o StrLower(TypeOf(res).str) \o " '"
               \o PyStr(DictGet(res, "name", VNull)) \o "' in '"
               \o PyStr(DictGet(res, "filePath", VNull))
               \o "' appears relevant to your question. "
               \o PyStr(DictGet(res, "description", VStr(""))) \o CodeBlock(res)

\* for res in rows: context.append(...). The loop raises at the first row
\* whose type is null; the lines appended before it stay in the context.
\* tags[i] is the stage the line of rows[i] is recorded under.
RECURSIVE AppendHits(_, _, _, _)
AppendHits(st, stage, rows, tags) ==
    IF rows = <<>> THEN [raised |-> FALSE, st |-> st]
    ELSE IF ~IsStr(TypeOf(Head(rows))) THEN [raised |-> TRUE, st |-> st]
    ELSE AppendHits(Appended(st, Head(tags), HitLine(stage, Head(rows))),
                    stage, Tail(rows), Tail(tags))
Tags(stage, rows) == [i \in 1..Len(rows) |-> stage]

\* Lines 249-266: the operations of the file the question names. With rows,
\* the header and one numbered line for each are the whole answer.
RECURSIVE Numbered(_, _)
Numbered(operations, i) ==
    IF i > Len(operations) THEN <<>>
    ELSE <<IntToStr(i) \o ". "
               \o PyStr(DictGet(operations[i], "description",
                                DictGet(operations[i], "name",
                                        VStr("Unnamed operation"))))>>
         \o Numbered(operations, i + 1)
RECURSIVE AppendAll(_, _, _)
AppendAll(st, stage, lines) ==
    IF lines = <<>> THEN st
    ELSE AppendAll(Appended(st, stage, Head(lines)), stage, Tail(lines))
\* The same without the return of line 266.
OperationsFallThrough(st, file_name, a) ==
    With(Issued(st, "operations", a), LAMBDA st1 :
        IF a.fails THEN ReturnGraphContext(st1)
        ELSE [AppendAll(st1, "targeted",
                  IF a.rows = <<>> THEN <<>>
                  ELSE <<"Operations available in " \o file_name \o ":">>
                           \o Numbered(a.rows, 1))
                 EXCEPT !.next = "vector_operation"])
Operations(st, file_name, a) ==
    With(Issued(st, "operations", a), LAMBDA st1 :
        IF a.fails THEN ReturnGraphContext(st1)
        ELSE IF a.rows # <<>>
        THEN ReturnJoined(AppendAll(st1, "targeted",
                 <<"Operations available in " \o file_name \o ":">>
                     \o Numbered(a.rows, 1)))
        ELSE [st1 EXCEPT !.next = "vector_operation"])

\* Lines 269-308: the operation, then the function, the question asks to
\* explain. .single() is the first row, or None without rows.
CodeFence(code) == Fence \o "c\n" \o PyStr(code) \o "\n" \o Fence
ExplainOperation(st, a) ==
    With(Issued(st, "explain_operation", a), LAMBDA st1 :
        IF a.fails THEN ReturnGraphContext(st1)
        ELSE IF a.rows # <<>> /\ Truthy(DictGet(a.rows[1], "code", VNull))
        THEN ReturnJoined(AppendAll(st1, "targeted",
                 <<"Here is the code for '"
                       \o PyStr(DictGet(a.rows[1], "description",
                                        DictGet(a.rows[1], "name", VNull)))
                       \o "':",
                   CodeFence(DictGet(a.rows[1], "code", VNull))>>))
        ELSE [st1 EXCEPT !.next = "explain_function"])
ExplainFunction(st, a) ==
    With(Issued(st, "explain_function", a), LAMBDA st1 :
        IF a.fails THEN ReturnGraphContext(st1)
        ELSE IF a.rows # <<>> /\ Truthy(DictGet(a.rows[1], "code", VNull))
        THEN ReturnJoined(AppendAll(st1, "targeted",
                 <<"Here is the function '"
                       \o PyStr(DictGet(a.rows[1], "name", VNull))
                       \o "' that matches your query:",
                   CodeFence(DictGet(a.rows[1], "code", VNull))>>))
        ELSE [st1 EXCEPT !.next = "vector_operation"])

\* Lines 484-489: the hits have a file path.
HasFilePaths(hits) ==
    \E i \in 1..Len(hits) :
        DictHas(hits[i], "filePath") /\ Truthy(DictGet(hits[i], "filePath", VNull))

\* Lines 484-489: file_paths, the file paths of the vector hits.
file_paths(hits) ==
    {DictGet(hits[i], "filePath", VNull) :
        i \in {j \in 1..Len(hits) :
                  /\ DictHas(hits[j], "filePath")
                  /\ Truthy(DictGet(hits[j], "filePath", VNull))}}

\* Line 347: entity_ids, one text for each vector hit, its name and its
\* file path with a hyphen between them.
entity_ids(hits) ==
    [i \in 1..Len(hits) |->
        PyStr(DictGet(hits[i], "name", VNull)) \o "-"
            \o PyStr(DictGet(hits[i], "filePath", VNull))]
\* split(text, '-') of Cypher: the pieces of the text between the hyphens.
RECURSIVE CypherSplit(_, _)
CypherSplit(text, piece) ==
    IF text = "" THEN <<piece>>
    ELSE IF Ch(text, 1) = "-" THEN <<piece>> \o CypherSplit(Tail(text), "")
    ELSE CypherSplit(Tail(text), piece \o Ch(text, 1))
\* Line 372: name and filePath as the traversal query takes them from an
\* entity id; an index past the end of a list gives null.
SplitEntityId(entityId) ==
    With(CypherSplit(entityId, ""), LAMBDA pieces :
        [name |-> VStr(pieces[1]),
         filePath |-> IF Len(pieces) >= 2 THEN VStr(pieces[2]) ELSE VNull])

\* The stages after the vector search, in the order of the code, each with
\* the condition under which the code runs it (lines 368, 402, 439, 482, 491).
Stages ==
    <<"traversal", "path", "keyword_name", "keyword_description",
      "file_context">>
Runs(stage, st, user_query) ==
    CASE stage = "traversal" -> st.hits # <<>>
      [] stage = "path" -> Len(st.hits) >= 2
      [] stage \in {"keyword_name", "keyword_description"} ->
           keywords(user_query) # <<>>
      [] stage = "file_context" -> st.hits # <<>> /\ HasFilePaths(st.hits)
\* What the code does after stage number n: the next stage that runs, or the
\* return of lines 541-544.
Following(st, user_query, n) ==
    LET later == {m \in (n + 1)..Len(Stages) : Runs(Stages[m], st, user_query)}
    IN  IF later = {} THEN ReturnGraphContext(st)
        ELSE [st EXCEPT !.next =
                  Stages[CHOOSE m \in later : \A o \in later : m <= o]]

\* Lines 310-365: the three vector searches; entity_results is the hits of
\* the operation index, then of the function index, then of the file index,
\* and one line is appended for each.
VectorSearch(st, index, a, user_query) ==
    With(Issued(st, index, a), LAMBDA st1 :
        IF a.fails THEN ReturnGraphContext(st1)
        ELSE With([st1 EXCEPT !.hits = @ \o a.rows,
                              !.indexes = @ \o Tags(index, a.rows)],
                  LAMBDA st2 :
            CASE index = "vector_operation" ->
                   [st2 EXCEPT !.next = "vector_function"]
              [] index = "vector_function" ->
                   [st2 EXCEPT !.next = "vector_file"]
              [] index = "vector_file" ->
                   With(AppendHits(st2, "vector", st2.hits, st2.indexes),
                        LAMBDA out :
                       IF out.raised THEN ReturnGraphContext(out.st)
                       ELSE Following(out.st, user_query, 0))))

\* Lines 367-478: the traversal, the shortest paths, and the two keyword
\* searches: one line for each row.
StageNumber(stage) == CHOOSE n \in 1..Len(Stages) : Stages[n] = stage
Search(st, stage, a, user_query) ==
    With(Issued(st, stage, a), LAMBDA st1 :
        IF a.fails THEN ReturnGraphContext(st1)
        ELSE With(AppendHits(st1, stage, a.rows, Tags(stage, a.rows)),
                  LAMBDA out :
                 IF out.raised THEN ReturnGraphContext(out.st)
                 ELSE Following(out.st, user_query, StageNumber(stage))))

\* Lines 505-513: the kind of file the labels of a file node tell, from the
\* first label that is not 'File'.
file_type(file_labels) ==
    LET others == SelectSeq(file_labels, LAMBDA label : label # VStr("File"))
    IN  IF others = <<>> THEN "file"
        ELSE StrRemove(StrRemove(StrRemove(StrRemove(others[1].str, "File"),
                 "Program"), "Module"), "Job")
FileLine(res) ==
    "The " \o StrLower(file_type(DictGet(res, "fileLabels", VList(<<>>)).list))
        \o " file '" \o PyStr(DictGet(res, "path", VNull))
        \o "' is part of repository '"
        \o PyStr(DictGet(res, "repoId", VStr("unknown"))) \o "'."

\* The next file row: its line is appended and its entities are asked for;
\* after the last row the function returns.
EnterFile(st) ==
    IF st.files = <<>> THEN ReturnGraphContext(st)
    ELSE [Appended(st, "file_context", FileLine(Head(st.files)))
             EXCEPT !.next = "file_entities"]

\* Lines 493-502
FileContext(st, a) ==
    With(Issued(st, "file_context", a), LAMBDA st1 :
        IF a.fails THEN ReturnGraphContext(st1)
        ELSE EnterFile([st1 EXCEPT !.files = a.rows]))

\* Lines 516-534: the entities the file contains, those with a name, in one
\* line. e.get('type', 'Entity').lower() raises if the type is null.
RECURSIVE entities_info(_)
entities_info(file_entities) ==
    IF file_entities = <<>> THEN <<>>
    ELSE (IF Truthy(DictGet(Head(file_entities), "name", VStr("")))
          THEN <<StrLower(TypeOf(Head(file_entities)).str) \o " '"
                     \o PyStr(DictGet(Head(file_entities), "name", VStr("")))
                     \o "'">>
          ELSE <<>>) \o entities_info(Tail(file_entities))
FileEntities(st, a) ==
    With(Issued(st, "file_entities", a), LAMBDA st1 :
        IF a.fails THEN ReturnGraphContext(st1)
        ELSE IF \E i \in 1..Len(a.rows) : ~IsStr(TypeOf(a.rows[i]))
        THEN ReturnGraphContext(st1)
        ELSE With(entities_info(a.rows), LAMBDA info :
                 EnterFile([(IF info = <<>> THEN st1
                             ELSE Appended(st1, "file_context",
                                      "The file '"
                                          \o PyStr(DictGet(Head(st1.files), "path", VNull))
                                          \o "' contains: "
                                          \o JoinWith(", ", info) \o "."))
                               EXCEPT !.files = Tail(@)])))

\* Lines 243-249 and 269: the query the retrieval starts with.
FirstQuery(user_query) ==
    IF file_match(user_query).ok THEN "operations"
    ELSE IF explain_match(user_query).ok THEN "explain_operation"
    ELSE "vector_operation"

\* retrieve_graph_context, one query at a time: what the query that comes
\* next leads to, given what the store answers to it.
GraphContextStep(st, user_query, a) ==
    CASE st.next = "operations" ->
           Operations(st, GroupN(user_query, file_match(user_query), 1), a)
      [] st.next = "explain_operation" -> ExplainOperation(st, a)
      [] st.next = "explain_function" -> ExplainFunction(st, a)
      [] st.next \in {"vector_operation", "vector_function", "vector_file"} ->
           VectorSearch(st, st.next, a, user_query)
      [] st.next \in {"traversal", "path", "keyword_name",
                      "keyword_description"} ->
           Search(st, st.next, a, user_query)
      [] st.next = "file_context" -> FileContext(st, a)
      [] st.next = "file_entities" -> FileEntities(st, a)

\* retrieve_graph_context(query_embedding, user_query, session), where the
\* session answers its n-th query with answers[n].
RECURSIVE GraphContextFrom(_, _, _)
GraphContextFrom(st, user_query, answers) ==
    IF st.next = "done" THEN st
    ELSE GraphContextFrom(GraphContextStep(st, user_query, Head(answers)),
                          user_query, Tail(answers))
retrieve_graph_context(user_query, answers) ==
    GraphContextFrom(Retrieval(FirstQuery(user_query)), user_query, answers)

-----------------------------------------------------------------------------
(* retrieve_file_specific_context. A row the store answers to its queries  *)
(* holds a node under 'e': its labels and its properties, or null. The     *)
(* function reads the rows through Result.data() of the driver, which      *)
(* turns a node into the dict of its properties.                           *)
-----------------------------------------------------------------------------
VNode(labels, data) == [node |-> [labels |-> labels, data |-> data]]
IsNode(v) == DOMAIN v = {"node"}
\* session.run(...).data()
ResultData(rows) ==
    [i \in 1..Len(rows) |->
        [k \in 1..Len(rows[i]) |->
            <<rows[i][k][1],
              IF IsNode(rows[i][k][2]) THEN VDict(rows[i][k][2].node.data)
              ELSE rows[i][k][2]>>]]

\* json.loads of the context blobs the callers of the model pass: these
\* are the JSON documents among them; every other blob is not JSON.
ContextDocs == <<
    [text |-> "{\"language\": \"python\", \"context_sample\": \"def f(): pass\"}",
     value |-> VDict(<< <<"language", VStr("python")>>,
                        <<"context_sample", VStr("def f(): pass")>> >>)],
    [text |-> "{\"context_sample\": \"x = 1\"}",
     value |-> VDict(<< <<"context_sample", VStr("x = 1")>> >>)],
    [text |-> "{\"language\": \"c\"}",
     value |-> VDict(<< <<"language", VStr("c")>> >>)],
    [text |-> "[1]", value |-> VList(<<VInt(1)>>)]>>
ContextLoads(text) ==
    IF \E i \in 1..Len(ContextDocs) : ContextDocs[i].text = text
    THEN [ok |-> TRUE,
          value |-> ContextDocs[CHOOSE i \in 1..Len(ContextDocs) :
                                    ContextDocs[i].text = text].value]
    ELSE [ok |-> FALSE]

\* A part of the code that appends lines, or raises before it appends.
Lines(lines) == [raises |-> FALSE, lines |-> lines]
Raises == [raises |-> TRUE, lines |-> <<>>]
\* The parts in a row: the lines up to the first part that raises.
RECURSIVE Parts(_)
Parts(parts) ==
    IF parts = <<>> THEN Lines(<<>>)
    ELSE IF Head(parts).raises THEN Raises
    ELSE With(Parts(Tail(parts)), LAMBDA rest :
             [raises |-> rest.raises, lines |-> Head(parts).lines \o rest.lines])
\* The lines the parts append before one raises.
RECURSIVE Kept(_)
Kept(parts) ==
    IF parts = <<>> \/ Head(parts).raises THEN <<>>
    ELSE Head(parts).lines \o Kept(Tail(parts))

\* value[:n] of a text; a number cannot be sliced.
Sliced(value, n, F(_)) ==
    IF IsStr(value) THEN Lines(<<F(Slice(value.str, 0, n))>>) ELSE Raises
\* Lines 559-562: the lines made of the context blob.
BlobParts(file_data) ==
    IF ~IsDict(file_data) THEN <<Raises>>
    ELSE <<IF Truthy(DictGet(file_data.dict, "language", VNull))
           THEN Lines(<<"LANGUAGE: "
                            \o PyStr(DictGet(file_data.dict, "language", VNull))>>)
           ELSE Lines(<<>>),
           IF ~Truthy(DictGet(file_data.dict, "context_sample", VNull))
           THEN Lines(<<>>)
           ELSE IF ~DictHas(file_data.dict, "language") THEN Raises
           ELSE Sliced(DictGet(file_data.dict, "context_sample", VNull), 1000,
                       LAMBDA sample :
                           "CODE SAMPLE:\n" \o Fence
                               \o PyStr(DictGet(file_data.dict, "language", VNull))
                               \o "\n" \o sample \o "\n" \o Fence \o "\n")>>

\* if rel_type and entity, line 583: the rows with a relationship type and
\* an entity that is not empty. For the first of them entity.labels
\* raises, the entity being a dict (line 589; line 665 for a hit).
Related(file_results) ==
    SelectSeq(file_results, LAMBDA row :
        /\ Truthy(DictGet(row, "relationship_type", VNull))
        /\ Truthy(DictGet(row, "e", VNull)))

\* What the function does with the parts of a stage: it appends their lines
\* and goes on to the query named, or it appends the lines before the part
\* that raises and returns (lines 679-682).
AfterParts(st, stage, parts, next) ==
    IF Parts(parts).raises
    THEN ReturnJoined(AppendAll(st, stage, Kept(parts)))
    ELSE [AppendAll(st, stage, Parts(parts).lines) EXCEPT !.next = next]

\* Lines 554-564: the context blob of the caller, before the first query.
FileSpecificStart(file_name, context_json) ==
    With(Retrieval("file_query"), LAMBDA st :
        IF context_json \in {None, ""} THEN st
        ELSE IF ~ContextLoads(context_json).ok THEN st
        ELSE AfterParts(st, "context_json",
                        <<Lines(<<"FILE: " \o PyStr(TextValue(file_name))>>)>>
                            \o BlobParts(ContextLoads(context_json).value),
                        "file_query"))

\* Lines 566-641: the entities related to the file. With no row that
\* raises there is no entity to describe.
FileQueryStage(st, a) ==
    With(Issued(st, "file_query", a), LAMBDA st1 :
        IF a.fails THEN ReturnJoined(st1)
        ELSE IF Related(ResultData(a.rows)) # <<>> THEN ReturnJoined(st1)
        ELSE [st1 EXCEPT !.next = "file_vector"])

\* Lines 643-677: the entities of the file that are similar to the
\* question. After the title the function returns: at the first entity,
\* which raises, or with no entity to describe.
FileVectorStage(st, a) ==
    With(Issued(st, "file_vector", a), LAMBDA st1 :
        IF a.fails THEN ReturnJoined(st1)
        ELSE IF ResultData(a.rows) = <<>> THEN ReturnJoined(st1)
        ELSE ReturnJoined(AppendAll(st1, "file_vector",
                                    <<"\nRELEVANT CODE SECTIONS:">>)))

FileSpecificStep(st, a) ==
    IF st.next = "file_query" THEN FileQueryStage(st, a)
    ELSE FileVectorStage(st, a)

\* retrieve_file_specific_context(query_embedding, user_query, repo_id,
\* file_path, session, context_json), where the session answers its n-th
\* query with answers[n].
RECURSIVE FileSpecificFrom(_, _)
FileSpecificFrom(st, answers) ==
    IF st.next = "done" THEN st
    ELSE FileSpecificFrom(FileSpecificStep(st, Head(answers)), Tail(answers))
retrieve_file_specific_context(file_name, answers, context_json) ==
    FileSpecificFrom(FileSpecificStart(file_name, context_json), answers)

\* chat_with_graph, lines 776-799: the retrieval the scope of the request
\* selects.
Retriever(is_repo_context, file_name, repo_id) ==
    IF is_repo_context THEN "repository"
    ELSE IF file_name \notin {None, ""} /\ repo_id \notin {None, ""}
    THEN "file"
    ELSE "fallback"

-----------------------------------------------------------------------------
(* The retrieval as a state machine: a chat request selects the retrieval, *)
(* which runs one query of the graph store at a step.                      *)
-----------------------------------------------------------------------------
\* The rows the store answers with in the model. Row holds the columns of
\* the vector, traversal, path and keyword searches.
Row(name, type, filePath, description, code) ==
    << <<"name", name>>, <<"type", type>>, <<"filePath", filePath>>,
       <<"description", description>>, <<"code", code>> >>
OperationRow(name, description, code) ==
    << <<"name", name>>, <<"description", description>>, <<"code", code>> >>
parse_operation ==
    OperationRow(VStr("parse"), VStr("Parses the input"), VStr("int parse();"))
emit_operation == OperationRow(VStr("emit"), VNull, VNull)
parse_function ==
    OperationRow(VStr("parse_all"), VStr("Parses every file"),
                 VStr("def parse_all(): pass"))
operation_hit ==
    Row(VStr("parse"), VStr("Operation"), VStr("parser.c"),
        VStr("Parses the input"), VStr("int parse();"))
function_hit ==
    Row(VStr("login"), VStr("Function"), VStr("auth.py"),
        VStr("Checks a password"), VNull)
class_hit ==
    Row(VStr("User"), VStr("Class"), VStr("auth.py"), VNull,
        VStr("class User: pass"))
file_hit ==
    Row(VStr("parser.c"), VStr("SourceFile"), VNull, VStr(""), VNull)
\* A function whose name and whose path have a hyphen
dashed_hit ==
    Row(VStr("login-auth"), VStr("Function"), VStr("my-app/auth.py"),
        VStr("Checks a password"), VNull)
near_row ==
    Row(VStr("check"), VStr("Function"), VStr("auth.py"), VStr("Checks"), VNull)
unlabelled_row == Row(VStr("x"), VNull, VNull, VNull, VNull)
file_row ==
    << <<"path", VStr("auth.py")>>, <<"repoId", VStr("repo")>>,
       <<"fileLabels", VList(<<VStr("PythonModule")>>)>> >>
plain_file_row ==
    << <<"path", VStr("parser.c")>>, <<"repoId", VNull>>,
       <<"fileLabels", VList(<<VStr("File"), VStr("CppFile")>>)>> >>
entity_rows ==
    << << <<"name", VStr("login")>>, <<"type", VStr("Function")>> >>,
       << <<"name", VNull>>, <<"type", VStr("Variable")>> >>,
       << <<"name", VStr("User")>>, <<"type", VStr("Class")>> >> >>
Related1(relationship_type, e) ==
    << <<"relationship_type", relationship_type>>, <<"e", e>> >>
Hit1(e) == << <<"e", e>> >>
function_node ==
    VNode(<<"Function">>,
          << <<"name", VStr("login")>>, <<"description", VStr("Checks a password")>>,
             <<"properties",
               VDict(<< <<"params", VList(<<VStr("user"), VStr("password")>>)>>,
                        <<"return_type", VStr("bool")>>,
                        <<"context_sample", VStr("def login(user, password):")>> >>)>> >>)
variable_node ==
    VNode(<<"Variable">>, << <<"name", VStr("limit")>>, <<"properties", VStr("{}")>> >>)
class_node == VNode(<<"Class">>, << <<"description", VStr("A user")>> >>)
operation_node ==
    VNode(<<"Operation">>,
          << <<"name", VStr("parse")>>,
             <<"properties", VDict(<< <<"code_snippet", VInt(7)>> >>)>> >>)
module_node == VNode(<<>>, << <<"name", VStr("os")>> >>)
\* A node without properties
bare_node == VNode(<<"Function">>, <<>>)

\* The answers of the store to each query.
Answers(query) ==
    {Failed, Rows(<<>>)} \cup
    CASE query = "operations" ->
           {Rows(<<parse_operation>>), Rows(<<emit_operation, parse_operation>>)}
      [] query = "explain_operation" ->
           {Rows(<<parse_operation>>), Rows(<<emit_operation>>)}
      [] query = "explain_function" -> {Rows(<<parse_function>>)}
      [] query = "vector_operation" -> {Rows(<<operation_hit>>)}
      [] query = "vector_function" ->
           {Rows(<<function_hit>>), Rows(<<class_hit, function_hit>>),
            Rows(<<dashed_hit>>)}
      [] query = "vector_file" -> {Rows(<<file_hit>>)}
      [] query = "traversal" -> {Rows(<<near_row>>), Rows(<<near_row, unlabelled_row>>)}
      [] query = "path" -> {Rows(<<function_hit, near_row>>)}
      [] query = "keyword_name" -> {Rows(<<function_hit>>)}
      [] query = "keyword_description" -> {Rows(<<class_hit>>)}
      [] query = "file_context" ->
           {Rows(<<file_row>>), Rows(<<plain_file_row, file_row>>)}
      [] query = "file_entities" -> {Rows(entity_rows)}
      [] query = "file_query" ->
           {Rows(<<Related1(VNull, VNull)>>),
            Rows(<<Related1(VStr("CONTAINS"), function_node),
                   Related1(VStr("defines"), class_node),
                   Related1(VStr("CONTAINS"), module_node)>>),
            Rows(<<Related1(VStr("CONTAINS"), operation_node)>>),
            Rows(<<Related1(VStr("DEFINES"), variable_node)>>),
            Rows(<<Related1(VStr("CONTAINS"), bare_node)>>)}
      [] query = "file_vector" ->
           {Rows(<<Hit1(function_node)>>),
            Rows(<<Hit1(class_node), Hit1(VNull), Hit1(operation_node)>>),
            Rows(<<Hit1(bare_node)>>)}

\* The file nodes the queries of the service select in a store that holds
\* the graph g. MATCH (f:File {repo_id: $repo_id, path: $file_path}), lines
\* 568 and 645: the file of the retrieval for one file.
FileOfRetrieval(g, repo_id, path) ==
    Matching(g, "File", << <<"repo_id", TextValue(repo_id)>>,
                           <<"path", TextValue(path)>> >>)
\* MATCH (f:File)-[:CONTAINS_OPERATION]->(o:Operation) WHERE f.name =
\* $file_name OR f.path ENDS WITH $file_name, lines 255-256: the files whose
\* operations the targeted question asks for.
FilesOfOperations(g, file_name) ==
    {i \in Matching(g, "File", <<>>) :
        /\ \E k \in 1..Len(g.edges) :
               /\ g.edges[k].from = i
               /\ g.edges[k].type = "CONTAINS_OPERATION"
               /\ g.nodes[g.edges[k].to].label = "Operation"
        /\ \/ DictGet(g.nodes[i].props, "name", VNull) = VStr(file_name)
           \/ /\ IsStr(DictGet(g.nodes[i].props, "path", VNull))
              /\ EndsWith(DictGet(g.nodes[i].props, "path", VNull).str, file_name)}
\* get_files: the status of the answer and the files listed for a
\* repository. Without a repo_id, or with an empty one, the answer is 400
\* and no query is run (lines 931-932); else MATCH (f:File {repo_id:
\* $repo_id}), line 939.
get_files(g, repo_id) ==
    IF repo_id \in {None, ""} THEN [status |-> 400, files |-> {}]
    ELSE [status |-> 200,
          files |-> Matching(g, "File", << <<"repo_id", TextValue(repo_id)>> >>)]

\* The JSON body of a chat request: query, is_repo_context, file_path,
\* repo_id and context.
Request(query, is_repo_context, path, repo_id, context_json) ==
    [query |-> query, is_repo_context |-> is_repo_context, file_path |-> path,
     repo_id |-> repo_id, context |-> context_json]
NoRequest == Request("", FALSE, None, None, None)
Questions ==
    {"what operations are in parser.c", "What does the code do with auth.py",
     "explain parse operation in parser.c", "how does login work", "hi"}
Blobs == {None, "oops"} \cup {ContextDocs[i].text : i \in 1..Len(ContextDocs)}
Requests ==
    {Request(query, TRUE, None, "repo", None) : query \in Questions}
    \cup {Request("how does login work", FALSE, path, None, None) :
              path \in {None, "auth.py"}}
    \cup {Request("how does login work", FALSE, "auth.py", "repo", blob) :
              blob \in Blobs}

-----------------------------------------------------------------------------
(* The files of the model, and the parser as a state machine.              *)

Files == <<
    [path |-> "auth.py", content |->
        "def login(user): return check(user)\ndef check(user): ..."],
    [path |-> "a.c", content |->
        "#include <stdio.h>"],
    [path |-> "e.py", content |->
        ""],
    [path |-> "c.py", content |->
        "# x = 5"],
    [path |-> "n.py", content |->
        "# todo\n"],
    [path |-> "n.js", content |->
        "// function f()"],
    [path |-> "app.js", content |->
        "function go() { run(); }\nfunction run() {}"],
    [path |-> "README", content |->
        "hello world\n"],
    [path |-> "PAY.cbl", content |->
        "PROGRAM-ID. PAY.\nMAIN-PARA.\n    IF A > B THEN\n"],
    [path |-> "T.java", content |->
        "class A extends B { int f() { return 1; } }"],
    [path |-> "pkg/db.py", content |->
        "def load(c):\n    c.run(\"SELECT id FROM users\")"],
    [path |-> "lib.h", content |->
        "#define MAX 10\nint add(int a);"],
    [path |-> "pkg/m.py", content |->
        "import os\nx = 1"],
    [path |-> "s.go", content |->
        "package main\nfunc main() {}"],
    [path |-> "v.ts", content |->
        "export const a = 1"],
    [path |-> "notes", content |->
        "import os\ndef f(): pass"],
    [path |-> "x.txt", content |->
        "def f"],
    [path |-> "m.c", content |->
        "#include \"u.h\"\nint main() { return 0; }"],
    [path |-> "shapes.py", content |->
        "class Base:\n    pass\nclass Circle(Base):\n    pass"],
    [path |-> "count.js", content |->
        "var n = 1\nfunction bump() { return n }"],
    [path |-> "save.py", content |->
        "def save(p):\n    open(p, \"w\")\ndef read(p):\n    open(p, \"r\")"]>>

Paths == {Files[i].path : i \in 1..Len(Files)}
Contents == {Files[i].content : i \in 1..Len(Files)}
\* The languages extract_with_regex is called with: those detect_language
\* returns, and sql, which has a table of its own.
Languages ==
    {language_patterns[i].lang : i \in 1..Len(language_patterns)}
        \cup {"sql", "unknown"}

NoCall ==
    [op |-> "none", file_path |-> None, content |-> None, language |-> None]
NoResponse == [raises |-> FALSE, text |-> None]
NoResult == [raised |-> FALSE, entities |-> <<>>, relationships |-> <<>>]

InitParser ==
    /\ pc = "idle"
    /\ file_path = None
    /\ content = None
    /\ language = None
    /\ model_response = NoResponse
    /\ ai_out = NoResult
    /\ result = NoResult
InitCalls ==
    /\ call = NoCall
    /\ detected = None
    /\ extracted = NoResult
NoRecord ==
    [repo_id |-> None, filename |-> None, entities |-> <<>>,
     relationships |-> <<>>]

NoRun == Run(NoRecord, FALSE, "idle", 0, FALSE)
InitIngest ==
    /\ graph = EmptyGraph
    /\ record = NoRecord
    /\ phase = "idle"
    /\ once = EmptyGraph
    /\ queries = <<>>
    /\ embedded = <<>>
    /\ ingest_raised = FALSE
    /\ rounds = 0
    /\ ingestion = NoRun
    /\ other = NoRun
    /\ clearing = "idle"
    /\ interferences = 0

InitRetrieve ==
    /\ request = NoRequest
    /\ retrieval = Retrieval("idle")

\* The invocations that run at the same time
Workers == {1, 2}
InitConcurrent ==
    /\ store = EmptyGraph
    /\ workers = [w \in Workers |-> NoRun]

Init ==
    /\ InitParser
    /\ InitCalls
    /\ InitIngest
    /\ InitRetrieve
    /\ InitConcurrent

\* parse_content is called with a file: it detects the language and calls
\* the generative model.
ParseCall(f) ==
    /\ pc = "idle"
    /\ pc' = "ai_call"
    /\ file_path' = f.path
    /\ content' = f.content
    /\ language' = detect_language(f.path, f.content)
    /\ UNCHANGED <<model_response, ai_out, result, callVars, ingestVars,
                   retrieveVars, concurrentVars>>

\* The generative model answers (or the call raises), and parse_content
\* runs to its return.
AiRespond(r) ==
    /\ pc = "ai_call"
    /\ pc' = "done"
    /\ model_response' = r
    /\ ai_out' = extract_with_ai(content, language, file_path, r)
    /\ result' = parse_content(content, file_path, r)
    /\ UNCHANGED <<file_path, content, language, callVars, ingestVars,
                   retrieveVars, concurrentVars>>

\* The caller has taken the result.
ParseReturn ==
    /\ pc = "done"
    /\ pc' = "idle"
    /\ file_path' = None
    /\ content' = None
    /\ language' = None
    /\ model_response' = NoResponse
    /\ ai_out' = NoResult
    /\ result' = NoResult
    /\ UNCHANGED <<callVars, ingestVars, retrieveVars, concurrentVars>>

Next ==
    \/ \E i \in 1..Len(Files) : ParseCall(Files[i])
    \/ \E r \in Responses : AiRespond(r)
    \/ ParseReturn

Spec == Init /\ [][Next]_vars

\* The same with the steps the interpreter takes by itself: the caller
\* takes a result that has been returned. generate_content is called
\* without a timeout (line 194) and nothing else bounds the wait, so
\* nothing makes the generative model answer: AiRespond has no fairness.
SpecLive == Init /\ [][Next]_vars /\ WF_vars(ParseReturn)

\* The functions of the parser called on their own: detect_language on any
\* path with any content, extract_with_regex on a file as any language.
DetectLanguage(path, text) ==
    /\ call = NoCall
    /\ call' = [op |-> "detect_language", file_path |-> path, content |-> text,
                language |-> None]
    /\ detected' = detect_language(path, text)
    /\ UNCHANGED extracted
    /\ UNCHANGED <<parserVars, ingestVars, retrieveVars, concurrentVars>>

ExtractWithRegex(f, lang) ==
    /\ call = NoCall
    /\ call' = [op |-> "extract_with_regex", file_path |-> f.path,
                content |-> f.content, language |-> lang]
    /\ extracted' = extract_with_regex(f.content, lang, f.path)
    /\ UNCHANGED detected
    /\ UNCHANGED <<parserVars, ingestVars, retrieveVars, concurrentVars>>

\* The caller has taken what the function returned.
CallReturn ==
    /\ call # NoCall
    /\ call' = NoCall
    /\ detected' = None
    /\ extracted' = NoResult
    /\ UNCHANGED <<parserVars, ingestVars, retrieveVars, concurrentVars>>

NextCalls ==
    \/ \E path \in Paths, text \in Contents : DetectLanguage(path, text)
    \/ \E i \in 1..Len(Files), lang \in Languages : ExtractWithRegex(Files[i], lang)
    \/ CallReturn

SpecCalls == Init /\ [][NextCalls]_vars

-----------------------------------------------------------------------------
(* The ingestor as a state machine: a parsed-file record is ingested into  *)
(* the store, ingested a second time, and then the next record comes. A    *)
(* query the session has run is committed: what an ingestion did before it *)
(* raised stays in the store.                                              *)

\* The record code_parser_entrypoint writes for the i-th file of the model,
\* uploaded for the repository r1, when the generative model fails.
ParsedRecord(i) ==
    With("cloned_repos/r1/" \o Files[i].path,
         LAMBDA file_name :
             output_data(file_name,
                         parse_content(Files[i].content, file_name,
                                       [raises |-> TRUE, text |-> None])))

\* The dict of an entity whose properties are a dict of these pairs
EntityDict(name, entity_type, path, description, pairs) ==
    CodeEntity(name, entity_type, path, description, VDict(pairs))

\* Records of other producers: types of entities and of relationships that
\* are in no table, an import of a file of the repository, two entities of
\* one name, an entity without a type, records without a filename, and
\* entities whose properties have the keys of the node's own fields, an
\* entity without a description, and an entity whose properties are a text.
OtherRecords == <<
    [repo_id |-> "r1", filename |-> "cloned_repos/r1/odd.py",
     entities |-> <<
        EntityDict("f", "foo\n", "cloned_repos/r1/odd.py", "d",
                   << <<"tags", VList(<<VStr("a"), VInt(1)>>)>>,
                      <<"original_name", VStr("f0")>>,
                      <<"a b", VInt(4)>>, <<"n", VNull>> >>),
        EntityDict("g", "my type", "cloned_repos/r1/odd.py", "d",
                   << <<"source_file", VStr("")>>, <<"size", VInt(0)>> >>),
        EntityDict("h", "", "cloned_repos/r1/odd.py", "d", <<>>),
        EntityDict("k", "CLASS", "cloned_repos/r1/odd.py", "d", <<>>) >>,
     relationships |-> <<
        CodeRelationship("f", "g", "depends-on!", "c"),
        CodeRelationship("f", "h", "123", "c"),
        CodeRelationship("g", "h", "Inherits", None),
        CodeRelationship("", "h", "calls", "c"),
        CodeRelationship("f", "k", "", "c") >>],
    [repo_id |-> "r1", filename |-> "cloned_repos/r1/main.py",
     entities |-> <<
        EntityDict("run", "function", "cloned_repos/r1/main.py", "d", <<>>),
        EntityDict("auth.py", "import", "cloned_repos/r1/main.py", "d",
                   << <<"source_file", VStr("main.py")>> >>),
        EntityDict("sys", "Import", "cloned_repos/r1/main.py", "d",
                   << <<"is_standard_library", VBool(TRUE)>> >>) >>,
     relationships |-> <<
        CodeRelationship("main.py", "auth.py", "imports", "c"),
        CodeRelationship("run", "run", "calls", "c") >>],
    [repo_id |-> "r1", filename |-> "cloned_repos/r1/x.py",
     entities |-> <<
        EntityDict("x", "function", "cloned_repos/r1/x.py", "d", <<>>),
        EntityDict("x", "variable", "cloned_repos/r1/x.py", "d", <<>>),
        EntityDict("y", "class", "cloned_repos/r1/x.py", "d", <<>>) >>,
     relationships |-> <<
        CodeRelationship("x", "y", "uses", "c"),
        CodeRelationship("y", "x", "calls", "c2"),
        CodeRelationship("x", "y", "uses", "c3") >>],
    [repo_id |-> "r1", filename |-> "cloned_repos/r1/t.java",
     entities |-> <<
        EntityDict("f", "function", "cloned_repos/r1/t.java", "d", <<>>),
        EntityDict("g", None, "cloned_repos/r1/t.java", "d", <<>>),
        EntityDict("h", "function", "cloned_repos/r1/t.java", "d", <<>>) >>,
     relationships |-> <<
        CodeRelationship("f", "h", "calls", "c") >>],
    [repo_id |-> "r1", filename |-> "", entities |-> <<
        EntityDict("f", "function", "", "d", <<>>) >>,
     relationships |-> <<>>],
    [repo_id |-> "r1", filename |-> None, entities |-> <<
        EntityDict("f", "function", "a.py", "d", <<>>) >>,
     relationships |-> <<
        CodeRelationship("f", "f", "calls", "c") >>],
    [repo_id |-> "r1", filename |-> "cloned_repos/r1/p.py",
     entities |-> <<
        EntityDict("f", "function", "cloned_repos/r1/p.py", "d",
                   << <<"name", VStr("g")>>, <<"repo_id", VStr("r2")>>,
                      <<"description", VStr("other")>>,
                      <<"embedding", VList(<<VInt(1)>>)>> >>),
        EntityDict("h", "function", "cloned_repos/r1/p.py", "d",
                   << <<"file_path", VStr("q.py")>> >>),
        EntityDict("k", "class", "cloned_repos/r1/p.py", "d",
                   << <<"line_number", VInt(3)>> >>) >>,
     relationships |-> <<
        CodeRelationship("f", "k", "calls", "c") >>],
    [repo_id |-> "r1", filename |-> "cloned_repos/r1/nd.py",
     entities |-> <<
        EntityDict("f", "function", "cloned_repos/r1/nd.py", None, <<>>),
        EntityDict("g", "function", "cloned_repos/r1/nd.py", "d", <<>>) >>,
     relationships |-> <<>>],
    [repo_id |-> "r1", filename |-> "cloned_repos/r1/np.py",
     entities |-> <<
        EntityDict("f", "function", "cloned_repos/r1/np.py", "d",
                   << <<"notes", VList(<<VStr("a\rb")>>)>> >>),
        CodeEntity("g", "function", "cloned_repos/r1/np.py", "d", VStr("abc")),
        EntityDict("h", "function", "cloned_repos/r1/np.py", "d", <<>>) >>,
     relationships |-> <<>>] >>

\* Records of two files that include one header, one with angle brackets
\* and one with quotes.
IncludingRecords == <<
    [repo_id |-> "r1", filename |-> "cloned_repos/r1/u.c",
     entities |-> <<
        EntityDict("util.h", "import", "cloned_repos/r1/u.c", "d",
                   << <<"is_standard_library", VBool(TRUE)>> >>) >>,
     relationships |-> <<>>],
    [repo_id |-> "r1", filename |-> "cloned_repos/r1/v.c",
     entities |-> <<
        EntityDict("v", "function", "cloned_repos/r1/v.c", "d", <<>>),
        EntityDict("util.h", "import", "cloned_repos/r1/v.c", "d",
                   << <<"is_standard_library", VBool(FALSE)>> >>) >>,
     relationships |-> <<>>] >>

\* The files of the model whose records are ingested: auth.py, a.c, pkg/m.py
ParsedFiles == {1, 2, 13}
Records ==
    {ParsedRecord(i) : i \in ParsedFiles}
        \cup {OtherRecords[i] : i \in 1..Len(OtherRecords)}
        \cup {IncludingRecords[i] : i \in 1..Len(IncludingRecords)}

\* How many operations there are on the store: ingestions of a record,
\* other invocations and clear_database calls
MaxRounds == 2
\* The records of the other invocations: main.py, which imports auth.py
InterferingRecords == {OtherRecords[2]}

\* Nothing but the ingestions of the records, one after the other, has
\* acted on the store.
Sequence == interferences = 0

\* The run of the record has come to next: the phase it is in then.
Ingesting(next, running, ended) ==
    /\ ingestion' = next.run
    /\ graph' = next.graph
    /\ phase' = IF next.run.at = "done" THEN ended ELSE running
    /\ ingest_raised' = next.run.raised
    /\ once' = IF ended = "twice" THEN once
               ELSE IF next.run.at = "done" THEN next.graph ELSE EmptyGraph

\* ingest_data_to_neo4j(rec, session) is called on the store as it is, and
\* runs up to its first query.
Ingest(rec, embeds) ==
    /\ phase = "idle"
    /\ rounds < MaxRounds
    /\ Ingesting([run |-> StartRun(rec, embeds), graph |-> graph],
                 "first", "once")
    /\ queries' = <<>>
    /\ embedded' = <<>>
    /\ record' = rec
    /\ rounds' = rounds + 1
    /\ UNCHANGED <<other, clearing, interferences>>
    /\ UNCHANGED <<parserVars, callVars, retrieveVars, concurrentVars>>

\* The next call the ingestion waits for, generate_embeddings or
\* session.run, and the code up to the one after it or to the end of the
\* function.
IngestQuery ==
    /\ phase \in {"first", "second"}
    /\ With(RunStep(ingestion, graph), LAMBDA next :
           /\ Ingesting(next, phase, IF phase = "first" THEN "once" ELSE "twice")
           /\ queries' = queries \o next.queries
           /\ embedded' = embedded \o next.embedded)
    /\ UNCHANGED <<record, rounds, other, clearing, interferences>>
    /\ UNCHANGED <<parserVars, callVars, retrieveVars, concurrentVars>>

\* ingest_data_to_neo4j is called on the same record again
IngestAgain(embeds) ==
    /\ phase = "once"
    /\ Ingesting([run |-> StartRun(record, embeds), graph |-> graph],
                 "second", "twice")
    /\ queries' = <<>>
    /\ embedded' = <<>>
    /\ UNCHANGED <<record, rounds, other, clearing, interferences>>
    /\ UNCHANGED <<parserVars, callVars, retrieveVars, concurrentVars>>

\* The record is done with; the store stays as it is.
IngestDone ==
    /\ phase \in {"once", "twice"}
    /\ phase' = "idle"
    /\ record' = NoRecord
    /\ ingestion' = NoRun
    /\ once' = EmptyGraph
    /\ queries' = <<>>
    /\ embedded' = <<>>
    /\ ingest_raised' = FALSE
    /\ UNCHANGED <<graph, rounds, other, clearing, interferences>>
    /\ UNCHANGED <<parserVars, callVars, retrieveVars, concurrentVars>>

\* Another invocation of graph_ingestor_entrypoint, for the record of
\* another file or of the same: it runs up to its first query.
OtherIngest(rec, embeds) ==
    /\ other.at \in {"idle", "done"}
    /\ rounds < MaxRounds
    /\ other' = StartRun(rec, embeds)
    /\ interferences' = interferences + 1
    /\ rounds' = rounds + 1
    /\ UNCHANGED <<graph, record, phase, once, queries, embedded, ingest_raised,
                   ingestion, clearing>>
    /\ UNCHANGED <<parserVars, callVars, retrieveVars, concurrentVars>>

\* The next call the other invocation waits for
OtherQuery ==
    /\ other.at \notin {"idle", "done"}
    /\ With(RunStep(other, graph), LAMBDA next :
           /\ other' = next.run
           /\ graph' = next.graph)
    /\ UNCHANGED <<record, phase, once, queries, embedded, ingest_raised,
                   rounds, ingestion, clearing, interferences>>
    /\ UNCHANGED <<parserVars, callVars, retrieveVars, concurrentVars>>

\* clear_database of the RAG service, lines 882-922: its first session.run,
\* MATCH ()-[r]-() DELETE r
ClearRelationships ==
    /\ clearing = "idle"
    /\ rounds < MaxRounds
    /\ graph' = [graph EXCEPT !.edges = <<>>]
    /\ clearing' = "nodes"
    /\ interferences' = interferences + 1
    /\ rounds' = rounds + 1
    /\ UNCHANGED <<record, phase, once, queries, embedded, ingest_raised,
                   ingestion, other>>
    /\ UNCHANGED <<parserVars, callVars, retrieveVars, concurrentVars>>

\* Its second session.run, MATCH (n) DELETE n: the store refuses to delete
\* a node that has a relationship, and then the query deletes nothing.
ClearNodes ==
    /\ clearing = "nodes"
    /\ graph' = IF graph.edges = <<>> THEN EmptyGraph ELSE graph
    /\ clearing' = "idle"
    /\ UNCHANGED <<record, phase, once, queries, embedded, ingest_raised,
                   rounds, ingestion, other, interferences>>
    /\ UNCHANGED <<parserVars, callVars, retrieveVars, concurrentVars>>

NextIngest ==
    \/ \E rec \in Records, embeds \in BOOLEAN : Ingest(rec, embeds)
    \/ IngestQuery
    \/ \E embeds \in BOOLEAN : IngestAgain(embeds)
    \/ IngestDone
    \/ \E rec \in InterferingRecords : OtherIngest(rec, TRUE)
    \/ OtherQuery
    \/ ClearRelationships
    \/ ClearNodes

SpecIngest == Init /\ [][NextIngest]_vars

-----------------------------------------------------------------------------
(* Two ingestions at a time: two invocations of the function, each with    *)
(* its own session, on one store.                                          *)
-----------------------------------------------------------------------------

\* The records that are ingested at the same time: auth.py, main.py, which
\* imports auth.py, x.py, and the two that include util.h.
ConcurrentRecords ==
    {ParsedRecord(1), OtherRecords[2], OtherRecords[3], OtherRecords[4],
     OtherRecords[5], IncludingRecords[1], IncludingRecords[2]}


-----------------------------------------------------------------------------
(* Two ingestions at a time, a query of the store at a step.               *)
-----------------------------------------------------------------------------
\* graph_ingestor_entrypoint is invoked for the record of a file, whatever
\* the other invocation is doing.
Receive(w) ==
    /\ workers[w].at = "idle"
    /\ \E rec \in ConcurrentRecords, embeds \in BOOLEAN :
        workers' = [workers EXCEPT ![w] = StartRun(rec, embeds)]
    /\ UNCHANGED store
    /\ UNCHANGED <<parserVars, callVars, ingestVars, retrieveVars>>

\* The query of the file node, lines 81-85
FileStep(w) ==
    /\ workers[w].at = "file"
    /\ With(RunStep(workers[w], store), LAMBDA next :
           /\ workers' = [workers EXCEPT ![w] = next.run]
           /\ store' = next.graph)
    /\ UNCHANGED <<parserVars, callVars, ingestVars, retrieveVars>>

\* The embedding of an entity is requested, line 160
EmbedStep(w) ==
    /\ workers[w].at = "embed"
    /\ With(RunStep(workers[w], store), LAMBDA next :
           /\ workers' = [workers EXCEPT ![w] = next.run]
           /\ store' = next.graph)
    /\ UNCHANGED <<parserVars, callVars, ingestVars, retrieveVars>>

\* The query of an entity, lines 198-206
EntityStep(w) ==
    /\ workers[w].at = "entity"
    /\ With(RunStep(workers[w], store), LAMBDA next :
           /\ workers' = [workers EXCEPT ![w] = next.run]
           /\ store' = next.graph)
    /\ UNCHANGED <<parserVars, callVars, ingestVars, retrieveVars>>

\* The lookup of what an import names, lines 215-225
LookupStep(w) ==
    /\ workers[w].at = "lookup"
    /\ With(RunStep(workers[w], store), LAMBDA next :
           /\ workers' = [workers EXCEPT ![w] = next.run]
           /\ store' = next.graph)
    /\ UNCHANGED <<parserVars, callVars, ingestVars, retrieveVars>>

\* The placeholder of an import that was not found, lines 246-264
PlaceholderStep(w) ==
    /\ workers[w].at = "placeholder"
    /\ With(RunStep(workers[w], store), LAMBDA next :
           /\ workers' = [workers EXCEPT ![w] = next.run]
           /\ store' = next.graph)
    /\ UNCHANGED <<parserVars, callVars, ingestVars, retrieveVars>>

\* The query of a relationship, lines 357-369
RelationshipStep(w) ==
    /\ workers[w].at = "relationship"
    /\ With(RunStep(workers[w], store), LAMBDA next :
           /\ workers' = [workers EXCEPT ![w] = next.run]
           /\ store' = next.graph)
    /\ UNCHANGED <<parserVars, callVars, ingestVars, retrieveVars>>

NextConcurrent ==
    \E w \in Workers :
        \/ Receive(w)
        \/ FileStep(w)
        \/ EmbedStep(w)
        \/ EntityStep(w)
        \/ LookupStep(w)
        \/ PlaceholderStep(w)
        \/ RelationshipStep(w)

SpecConcurrent == Init /\ [][NextConcurrent]_vars

-----------------------------------------------------------------------------
(* chat_with_graph and the retrievals, a query of the store at a step.     *)
-----------------------------------------------------------------------------
\* chat_with_graph, lines 688-799: the request selects the retrieval, which
\* runs up to its first query.
ChatRequest ==
    /\ retrieval.next = "idle"
    /\ \E req \in Requests :
        /\ request' = req
        /\ retrieval' =
               IF Retriever(req.is_repo_context, req.file_path, req.repo_id) = "file"
               THEN FileSpecificStart(req.file_path, req.context)
               ELSE Retrieval(FirstQuery(req.query))
    /\ UNCHANGED <<parserVars, callVars, ingestVars, concurrentVars>>

InGraphContext ==
    Retriever(request.is_repo_context, request.file_path, request.repo_id)
        \in {"repository", "fallback"}
InFileContext ==
    Retriever(request.is_repo_context, request.file_path, request.repo_id) = "file"

\* session.run of the query the retrieval is at, and the code up to the
\* next query or the return.
\* Lines 254-266
OperationsQuery ==
    /\ InGraphContext
    /\ retrieval.next = "operations"
    /\ \E a \in Answers("operations") :
        retrieval' = GraphContextStep(retrieval, request.query, a)
    /\ UNCHANGED <<request, parserVars, callVars, ingestVars, concurrentVars>>
\* Lines 275-290
ExplainOperationQuery ==
    /\ InGraphContext
    /\ retrieval.next = "explain_operation"
    /\ \E a \in Answers("explain_operation") :
        retrieval' = GraphContextStep(retrieval, request.query, a)
    /\ UNCHANGED <<request, parserVars, callVars, ingestVars, concurrentVars>>
\* Lines 293-308
ExplainFunctionQuery ==
    /\ InGraphContext
    /\ retrieval.next = "explain_function"
    /\ \E a \in Answers("explain_function") :
        retrieval' = GraphContextStep(retrieval, request.query, a)
    /\ UNCHANGED <<request, parserVars, callVars, ingestVars, concurrentVars>>
\* Lines 314-323
VectorOperationQuery ==
    /\ InGraphContext
    /\ retrieval.next = "vector_operation"
    /\ \E a \in Answers("vector_operation") :
        retrieval' = GraphContextStep(retrieval, request.query, a)
    /\ UNCHANGED <<request, parserVars, callVars, ingestVars, concurrentVars>>
\* Lines 326-333
VectorFunctionQuery ==
    /\ InGraphContext
    /\ retrieval.next = "vector_function"
    /\ \E a \in Answers("vector_function") :
        retrieval' = GraphContextStep(retrieval, request.query, a)
    /\ UNCHANGED <<request, parserVars, callVars, ingestVars, concurrentVars>>
\* Lines 336-365
VectorFileQuery ==
    /\ InGraphContext
    /\ retrieval.next = "vector_file"
    /\ \E a \in Answers("vector_file") :
        retrieval' = GraphContextStep(retrieval, request.query, a)
    /\ UNCHANGED <<request, parserVars, callVars, ingestVars, concurrentVars>>
\* Lines 368-399
TraversalQuery ==
    /\ InGraphContext
    /\ retrieval.next = "traversal"
    /\ \E a \in Answers("traversal") :
        retrieval' = GraphContextStep(retrieval, request.query, a)
    /\ UNCHANGED <<request, parserVars, callVars, ingestVars, concurrentVars>>
\* Lines 402-431
PathQuery ==
    /\ InGraphContext
    /\ retrieval.next = "path"
    /\ \E a \in Answers("path") :
        retrieval' = GraphContextStep(retrieval, request.query, a)
    /\ UNCHANGED <<request, parserVars, callVars, ingestVars, concurrentVars>>
\* Lines 435-458
KeywordNameQuery ==
    /\ InGraphContext
    /\ retrieval.next = "keyword_name"
    /\ \E a \in Answers("keyword_name") :
        retrieval' = GraphContextStep(retrieval, request.query, a)
    /\ UNCHANGED <<request, parserVars, callVars, ingestVars, concurrentVars>>
\* Lines 461-478
KeywordDescriptionQuery ==
    /\ InGraphContext
    /\ retrieval.next = "keyword_description"
    /\ \E a \in Answers("keyword_description") :
        retrieval' = GraphContextStep(retrieval, request.query, a)
    /\ UNCHANGED <<request, parserVars, callVars, ingestVars, concurrentVars>>
\* Lines 482-513
FileContextQuery ==
    /\ InGraphContext
    /\ retrieval.next = "file_context"
    /\ \E a \in Answers("file_context") :
        retrieval' = GraphContextStep(retrieval, request.query, a)
    /\ UNCHANGED <<request, parserVars, callVars, ingestVars, concurrentVars>>
\* Lines 516-534
FileEntitiesQuery ==
    /\ InGraphContext
    /\ retrieval.next = "file_entities"
    /\ \E a \in Answers("file_entities") :
        retrieval' = GraphContextStep(retrieval, request.query, a)
    /\ UNCHANGED <<request, parserVars, callVars, ingestVars, concurrentVars>>
\* Lines 567-641
FileRelatedQuery ==
    /\ InFileContext
    /\ retrieval.next = "file_query"
    /\ \E a \in Answers("file_query") : retrieval' = FileSpecificStep(retrieval, a)
    /\ UNCHANGED <<request, parserVars, callVars, ingestVars, concurrentVars>>
\* Lines 644-677
FileVectorQuery ==
    /\ InFileContext
    /\ retrieval.next = "file_vector"
    /\ \E a \in Answers("file_vector") : retrieval' = FileSpecificStep(retrieval, a)
    /\ UNCHANGED <<request, parserVars, callVars, ingestVars, concurrentVars>>

NextRetrieve ==
    \/ ChatRequest
    \/ OperationsQuery
    \/ ExplainOperationQuery
    \/ ExplainFunctionQuery
    \/ VectorOperationQuery
    \/ VectorFunctionQuery
    \/ VectorFileQuery
    \/ TraversalQuery
    \/ PathQuery
    \/ KeywordNameQuery
    \/ KeywordDescriptionQuery
    \/ FileContextQuery
    \/ FileEntitiesQuery
    \/ FileRelatedQuery
    \/ FileVectorQuery

SpecRetrieve == Init /\ [][NextRetrieve]_vars

-----------------------------------------------------------------------------
(* Properties of parse_content, stated where it has run to its return.    *)

\* parse_content returned the pair extract_with_regex gives for the file.
IsRegexResult == result = extract_with_regex(content, language, file_path)
\* parse_content returned the pair extract_with_ai gave.
IsAiResult == result = Returned(ai_out.entities, ai_out.relationships)

\* C1: parse_content is primary-or-fallback.  With a non-empty entity list
\* from extract_with_ai the result is exactly the pair extract_with_ai gave;
\* with an empty one it is exactly the pair of extract_with_regex, also when
\* the relationship list of extract_with_ai was not empty.
C1_PrimaryOrFallback ==
    pc = "done" =>
        /\ ~result.raised
        /\ ai_out.entities # <<>> => IsAiResult
        /\ ai_out.entities = <<>> => IsRegexResult

\* The fallback is taken although the model gave relationships, and the
\* regex path found entities in the file.
C1_Witness ==
    /\ pc = "done"
    /\ ai_out.entities = <<>>
    /\ ai_out.relationships # <<>>
    /\ Len(result.entities) > 1
    /\ IsRegexResult

\* The text between the first "{" and the last "}" of a response, where
\* there is one.
HasJsonSpan(text) ==
    StrFind(text, "{") >= 0 /\ StrRFind(text, "}") + 1 > StrFind(text, "{")
JsonSpan(text) == Slice(text, StrFind(text, "{"), StrRFind(text, "}") + 1)

\* The failures of the AI path: the call raises, the response has no span
\* "{" ... "}", the span is no valid JSON.
AiFails(r) ==
    \/ r.raises
    \/ ~HasJsonSpan(r.text)
    \/ ~JsonLoads(JsonSpan(r.text)).ok

\* C2: on every failure of the AI path extract_with_ai returns ([], [])
\* without raising, and parse_content returns the result of the regex path
\* and raises nothing.
C2_AiFailureFallsBack ==
    pc = "done" /\ AiFails(model_response) =>
        /\ ai_out = Returned(<<>>, <<>>)
        /\ ~result.raised
        /\ IsRegexResult

\* The call of the model raised, and parse_content returned what the regex
\* path found in the file.
C2_Witness ==
    /\ pc = "done"
    /\ model_response.raises
    /\ ~result.raised
    /\ Len(result.entities) > 1
    /\ IsRegexResult

\* The response parses as JSON, and an entity of it lacks name, entity_type
\* or description, or has null there.
RequiredFields == {"name", "entity_type", "description"}
LacksRequiredField(r) ==
    /\ ~AiFails(r)
    /\ With(DictGet(JsonLoads(JsonSpan(r.text)).value.dict, "entities", VList(<<>>)),
            LAMBDA es :
                /\ IsList(es)
                /\ \E i \in 1..Len(es.list) :
                      /\ IsDict(es.list[i])
                      /\ \E key \in RequiredFields :
                            DictGet(es.list[i].dict, key, VNull) = VNull)

\* C3: a response with an entity that lacks a required field counts as a
\* failure of the extraction: parse_content returns the result of the regex
\* path, and no entity parse_content returns has a missing or null name or
\* entity_type.
C3_MissingFieldFallsBack ==
    pc = "done" =>
        /\ LacksRequiredField(model_response) => IsRegexResult
        /\ \A i \in 1..Len(result.entities) :
              /\ result.entities[i].name # None
              /\ result.entities[i].entity_type # None

\* C18: a call of parse_content that has called the generative model
\* eventually returns, whether the model answers, fails, or never answers.
C18_ParseAlwaysReturns == (pc = "ai_call") ~> (pc = "done")

-----------------------------------------------------------------------------
(* Properties of detect_language and extract_with_regex, stated where a   *)
(* call of the function has returned.                                      *)

\* The score of the k-th language of the signature table: 2 for each of its
\* patterns that matches the path, 1 for each that matches the content.
SignatureScore(k, path, text) ==
    2 * Cardinality({p \in 1..Len(language_patterns[k].pats) :
                        ReSearch(language_patterns[k].pats[p], path, FlagsI)})
    + Cardinality({p \in 1..Len(language_patterns[k].pats) :
                      ReSearch(language_patterns[k].pats[p], text, FlagsIM)})

\* The languages of the table, by their place in it, that score 2 or more.
Reaching(path, text) ==
    {k \in 1..Len(language_patterns) : SignatureScore(k, path, text) >= 2}

\* reach is what Reaching gives for the call, returned what the call gave.
FirstReaching(reach, returned) ==
    /\ returned = "unknown" <=> reach = {}
    /\ reach # {} =>
          returned = language_patterns[CHOOSE k \in reach :
                                           \A o \in reach : k <= o].lang

\* C4: detect_language returns the first language, in the order of the
\* signature table, whose score is at least 2, and "unknown" exactly when no
\* language scores 2; what it returns is determined by the path and the
\* content.
C4_FirstLanguageReachingTwo ==
    call.op = "detect_language" =>
        FirstReaching(Reaching(call.file_path, call.content), detected)

\* Two languages or more reach the score 2, and the one returned is not the
\* last of them.
C4_Witness ==
    /\ call.op = "detect_language"
    /\ Cardinality(Reaching(call.file_path, call.content)) >= 2
    /\ detected # "unknown"
    /\ \E k \in Reaching(call.file_path, call.content) :
          language_patterns[k].lang # detected

\* What begins a comment that runs to the end of the line.
CommentMarkers(lang) ==
    CASE lang \in {"python", "ruby"} -> {"#"}
      [] lang \in {"c", "cpp", "java", "javascript", "typescript", "csharp",
                   "go", "php"} -> {"//"}
      [] OTHER -> {}

\* The line of s that begins at index i is blank or a comment.
IsCommentLine(s, i, lang) ==
    \E j \in i..(Len(s) + 1) :
        /\ \A k \in i..(j - 1) : Ch(s, k) \in {" ", "\t"}
        /\ \/ j > Len(s)
           \/ Ch(s, j) = "\n"
           \/ \E m \in CommentMarkers(lang) :
                 /\ j + Len(m) - 1 <= Len(s)
                 /\ SubSeq(s, j, j + Len(m) - 1) = m

\* s is empty or has comments and blank lines only.
CommentOnly(s, lang) ==
    \A i \in 1..Len(s) : (i = 1 \/ Ch(s, i - 1) = "\n") => IsCommentLine(s, i, lang)

\* C5: for a content that is empty or has comments only, also comments that
\* read like code, extract_with_regex returns the file entity and nothing
\* else, no relationship, and does not raise.
C5_CommentOnlyGivesFileEntity ==
    call.op = "extract_with_regex" /\ CommentOnly(call.content, call.language) =>
        /\ ~extracted.raised
        /\ Len(extracted.entities) = 1
        /\ extracted.entities[1].name = Basename(call.file_path)
        /\ extracted.relationships = <<>>

\* The names of the entities, and the relationships of one type.
EntityNames(out) == {out.entities[i].name : i \in 1..Len(out.entities)}
RelationshipsOfType(out, type) ==
    SelectSeq(out.relationships, LAMBDA r : r.relationship_type = type)

\* Scenario A: files that define the functions caller and callee, where the
\* body of caller calls callee and the body of callee does not call caller;
\* base is the base name of the file without its extension.
ScenariosA == {
    [file_path |-> "auth.py", language |-> "python",
     content |-> "def login(user): return check(user)\ndef check(user): ...",
     caller |-> "login", callee |-> "check", base |-> "auth"],
    [file_path |-> "app.js", language |-> "javascript",
     content |-> "function go() { run(); }\nfunction run() {}",
     caller |-> "go", callee |-> "run", base |-> "app"]}

\* C6: for a file of scenario A extract_with_regex gives the entities named
\* caller-base and callee-base and the file entity, and one calls
\* relationship, from caller-base to callee-base.
C6_ScenarioA ==
    \A sc \in ScenariosA :
        /\ call.op = "extract_with_regex"
        /\ call.file_path = sc.file_path
        /\ call.content = sc.content
        /\ call.language = sc.language
        => /\ EntityNames(extracted) =
                 {sc.file_path, sc.caller \o "-" \o sc.base,
                  sc.callee \o "-" \o sc.base}
           /\ Len(RelationshipsOfType(extracted, "calls")) = 1
           /\ RelationshipsOfType(extracted, "calls")[1].source =
                 sc.caller \o "-" \o sc.base
           /\ RelationshipsOfType(extracted, "calls")[1].target =
                 sc.callee \o "-" \o sc.base

\* C7: in what extract_with_regex returns no two entities have the same
\* name and file_path, and every entity but the file entity has the
\* property original_name.
C7_UniqueNamesWithOriginal ==
    call.op = "extract_with_regex" =>
        /\ \A i, j \in 1..Len(extracted.entities) :
              i # j =>
                  <<extracted.entities[i].name, extracted.entities[i].file_path>>
                      # <<extracted.entities[j].name, extracted.entities[j].file_path>>
        /\ \A i \in 2..Len(extracted.entities) :
              DictHas(extracted.entities[i].properties.dict, "original_name")

\* The entities of out that are named name.
EntitiesNamed(out, name) ==
    SelectSeq(out.entities, LAMBDA e : e.name = name)

\* C8: for the C file a.c with the line #include <stdio.h>
\* extract_with_regex gives one entity for the include, of type import,
\* named stdio.h, with is_standard_library true, and an imports
\* relationship from a.c to stdio.h, and no defines relationship to it.
C8_ScenarioBExtraction ==
    /\ call.op = "extract_with_regex"
    /\ call.file_path = "a.c"
    /\ call.content = "#include <stdio.h>"
    /\ call.language = "c"
    => /\ Len(EntitiesNamed(extracted, "stdio.h")) = 1
       /\ EntitiesNamed(extracted, "stdio.h")[1].entity_type = "import"
       /\ DictGet(EntitiesNamed(extracted, "stdio.h")[1].properties.dict,
                  "is_standard_library", VNull) = VBool(TRUE)
       /\ \E i \in 1..Len(extracted.relationships) :
             /\ extracted.relationships[i].relationship_type = "imports"
             /\ extracted.relationships[i].source = "a.c"
             /\ extracted.relationships[i].target = "stdio.h"
       /\ \A i \in 1..Len(extracted.relationships) :
             extracted.relationships[i].relationship_type = "defines"
                 => extracted.relationships[i].target # "stdio.h"

-----------------------------------------------------------------------------
(* Properties of ingest_data_to_neo4j, stated where a record has been      *)
(* ingested.                                                               *)

\* The nodes of a graph by label and key, and its edges by ends and type.
NodeKey(n) ==
    <<n.label, DictGet(n.props, "name", VNull),
      DictGet(n.props, "file_path", VNull), DictGet(n.props, "path", VNull)>>
Shape(g) ==
    [nodes |-> [i \in 1..Len(g.nodes) |-> NodeKey(g.nodes[i])],
     edges |-> [i \in 1..Len(g.edges) |->
                   <<g.edges[i].from, g.edges[i].type, g.edges[i].to>>]]

\* C9: from any state of the graph, ingesting a record a second time leaves
\* as many nodes and as many edges as ingesting it once did, the same nodes
\* by label, name, file_path and path and the same edges by source, type
\* and target: no second node for a key, no second edge for a triple; this
\* for records with import entities too.
C9_IngestTwiceAsOnce ==
    phase = "twice" /\ Sequence
    => /\ Len(graph.nodes) = Len(once.nodes)
       /\ Len(graph.edges) = Len(once.edges)
       /\ Shape(graph) = Shape(once)

\* A record with import entities has been ingested twice into a store that
\* held another file already; the store holds a placeholder and edges.
C9_Witness ==
    /\ phase = "twice"
    /\ Sequence
    /\ rounds = 2
    /\ ImportEntities(record.entities) # <<>>
    /\ graph.edges # <<>>
    /\ \E i \in 1..Len(graph.nodes) :
           DictGet(graph.nodes[i].props, "is_placeholder", VNull) = VBool(TRUE)

\* C10: in every query of an ingestion, every label put into the text
\* matches ^[A-Za-z][A-Za-z0-9_]*$, every edge type put into it is a
\* non-empty text of the letters A-Z and "_", and nothing else of the record
\* is put into the text.
C10_OnlyCheckedNamesInQueries ==
    \A i \in 1..Len(queries) :
        /\ \A k \in 1..Len(queries[i].labels) :
               ReMatch(identifier_pattern, queries[i].labels[k], NoFlags).ok
        /\ \A k \in 1..Len(queries[i].types) :
               /\ queries[i].types[k] # ""
               /\ \A c \in 1..Len(queries[i].types[k]) :
                      Ch(queries[i].types[k], c) \in Uppers \cup {"_"}
        /\ queries[i].keys = <<>>

\* The nodes of g named name in the file path, and whether an edge of any
\* type leads from a node named source to one named target in that file.
NodesNamed(g, name, path) ==
    Matching(g, None, << <<"name", TextValue(name)>>,
                         <<"file_path", TextValue(path)>> >>)
HasEdge(g, source, target, path) ==
    \E i \in 1..Len(g.edges) :
        /\ g.edges[i].from \in NodesNamed(g, source, path)
        /\ g.edges[i].to \in NodesNamed(g, target, path)

\* The entities of the record have texts as descriptions and dicts as
\* properties: the ingestion raises for no other reason than the types.
PlainEntities(rec) ==
    \A i \in 1..Len(rec.entities) :
        /\ rec.entities[i].description # None
        /\ IsDict(GetProperties(rec.entities[i]))

\* An entity_type that is null, empty or no identifier
BadEntityType(entity_type) ==
    \/ entity_type \in {None, ""}
    \/ ~ReMatch(identifier_pattern, entity_type, NoFlags).ok

\* C11: the ingestion of a record with a filename and without imports does
\* not raise, whatever the types in it are; every entity of the record has
\* its node, under the label Entity where its entity_type is null, empty or
\* no identifier; and every relationship between two entities of the record
\* has its edge, also where its relationship_type is null, empty or
\* sanitizes to the empty text.
C11_BadTypeNeverAborts ==
    /\ phase \in {"once", "twice"}
    /\ Sequence
    /\ record.filename \notin {None, ""}
    /\ ImportEntities(record.entities) = <<>>
    /\ PlainEntities(record)
    => /\ ~ingest_raised
       /\ \A i \in 1..Len(record.entities) :
              With(record.entities[i],
                   LAMBDA e :
                       /\ NodesNamed(graph, e.name, e.file_path) # {}
                       /\ BadEntityType(e.entity_type)
                              => \E n \in NodesNamed(graph, e.name, e.file_path) :
                                     graph.nodes[n].label = "Entity")
       /\ \A i \in 1..Len(record.relationships) :
              With(record.relationships[i],
                   LAMBDA r :
                       /\ r.source \notin {None, ""}
                       /\ r.target \notin {None, ""}
                       => HasEdge(graph, r.source, r.target, record.filename))

\* C12: the ingestion of a record whose filename is missing or empty does
\* not raise, runs no query, requests no embedding and leaves the graph as
\* it was.
C12_NoFilenameNoEffect ==
    [][phase = "idle" /\ phase' # "idle" /\ record'.filename \in {None, ""}
          => /\ phase' = "once"
             /\ graph' = graph
             /\ queries' = <<>>
             /\ embedded' = <<>>
             /\ ~ingest_raised']_vars

\* A record without a filename, with an entity in it, has been ingested
\* into a store that holds the nodes and edges of another file.
C12_Witness ==
    /\ phase = "once"
    /\ record.filename \in {None, ""}
    /\ record.entities # <<>>
    /\ graph.nodes # <<>>
    /\ graph.edges # <<>>

\* The nodes of the entity e in g: those of its label, name and file_path
EntityNodes(g, e) ==
    Matching(g, CypherToken(NodeLabel(e.entity_type)),
             << <<"name", TextValue(e.name)>>,
                <<"file_path", TextValue(e.file_path)>> >>)
\* No entity after the i-th of the record rec is written to the same node.
LastOfNode(rec, i) ==
    \A j \in (i + 1)..Len(rec.entities) :
        \/ rec.entities[j].entity_type = None
        \/ rec.entities[j].name # rec.entities[i].name
        \/ rec.entities[j].file_path # rec.entities[i].file_path
        \/ CypherToken(NodeLabel(rec.entities[j].entity_type))
               # CypherToken(NodeLabel(rec.entities[i].entity_type))
\* A value as the node is to carry it: a list or dict as its JSON text
Persisted(value) ==
    IF IsList(value) \/ IsDict(value) THEN VStr(JsonDumps(value)) ELSE value

\* The properties bag of an entity of a record
Bag(e) == IF IsDict(GetProperties(e)) THEN GetProperties(e).dict ELSE <<>>

\* C13: once an entity of the record is ingested (it has its node, and no
\* later entity of the record is written to that node), the node carries
\* every key of the entity's properties that matches the identifier
\* pattern and whose value is not null, with the value itself, or with its
\* JSON text for a list or a dict; the other keys of the properties are not
\* on the node.
C13_PropertyRoundTrip ==
    phase \in {"once", "twice"} /\ Sequence
    => \A i \in 1..Len(record.entities) :
           With(record.entities[i],
                LAMBDA e :
                    /\ e.entity_type # None
                    /\ ~IsImport(e)
                    /\ LastOfNode(record, i)
                    => \A n \in EntityNodes(graph, e) :
                           \A k \in 1..Len(Bag(e)) :
                               IF /\ ReMatch(identifier_pattern,
                                             Bag(e)[k][1], NoFlags).ok
                                  /\ Bag(e)[k][2] # VNull
                               THEN DictGet(graph.nodes[n].props,
                                            Bag(e)[k][1], VNull)
                                        = Persisted(Bag(e)[k][2])
                               ELSE ~DictHas(graph.nodes[n].props,
                                             Bag(e)[k][1]))

-----------------------------------------------------------------------------
(* Properties of the retrieval, stated on the retrieval of a chat request. *)
-----------------------------------------------------------------------------
\* The retrieval of the request has returned.
Retrieved == retrieval.next = "done"

\* C14: in every scope, whatever queries fail, the retrieval returns a text;
\* it is never the empty text, and where no strategy gave a line it is the
\* sentinel that tells that no context was found.
C14_AlwaysAContext ==
    Retrieved
    => /\ retrieval.returned \notin {None, ""}
       /\ retrieval.context = <<>> => retrieval.returned = no_context

\* The line of operation i is its number, ". " and its description, or
\* None where it has none.
NumberedLine(line, i, operation) ==
    line = IntToStr(i) \o ". " \o PyStr(DictGet(operation, "description", VNull))

\* C15: where the question asks what operations are in a file and the store
\* holds operations of the file, retrieve_graph_context returns the header
\* and one numbered line for each operation, and the only query it issues
\* is the lookup of the operations.
C15_TargetedAnswerOnly ==
    /\ Retrieved
    /\ InGraphContext
    /\ file_match(request.query).ok
    /\ retrieval.answered # <<>>
    /\ retrieval.answered[1].rows # <<>>
    => /\ retrieval.issued = <<"operations">>
       /\ Len(retrieval.context) = 1 + Len(retrieval.answered[1].rows)
       /\ retrieval.context[1]
              = "Operations available in "
                    \o GroupN(request.query, file_match(request.query), 1) \o ":"
       /\ \A i \in 1..Len(retrieval.answered[1].rows) :
              NumberedLine(retrieval.context[i + 1], i,
                           retrieval.answered[1].rows[i])
       /\ retrieval.returned = JoinWith("\n", retrieval.context)
C15_Witness ==
    /\ Retrieved
    /\ request.query = "what operations are in parser.c"
    /\ retrieval.issued = <<"operations">>
    /\ Len(retrieval.answered[1].rows) = 2
    /\ retrieval.returned
           = "Operations available in parser.c:\n1. None\n2. Parses the input"

\* a is the start of b
IsPrefix(a, b) == Len(a) <= Len(b) /\ SubSeq(b, 1, Len(a)) = a

\* The place of a stage in the order of the fused context: the answer to a
\* targeted question, the hits of the operation index, of the function
\* index and of the file index, the traversal, the shortest paths, the
\* keyword search by name and by description, and the file context.
Priority ==
    <<"targeted", "vector_operation", "vector_function", "vector_file",
      "traversal", "path", "keyword_name", "keyword_description",
      "file_context">>
Rank(stage) == CHOOSE n \in 1..Len(Priority) : Priority[n] = stage
InStageOrder(origin) ==
    /\ \A i \in 1..Len(origin) : \E n \in 1..Len(Priority) : Priority[n] = origin[i]
    /\ \A i, j \in 1..Len(origin) : i < j => Rank(origin[i]) <= Rank(origin[j])

\* C16: a step of a repository-wide retrieval leaves the context it had as
\* the start of the context it has next (lines are only appended), and the
\* lines of the context are in the order of the stages: the hits of the
\* operation index, then of the function index, then of the file index,
\* then the traversal, the shortest paths, the keyword search by name, by
\* description, and the file context.
C16_ContextOnlyGrowsInStageOrder ==
    [][InGraphContext'
          => /\ IsPrefix(retrieval.context, retrieval'.context)
             /\ IsPrefix(retrieval.origin, retrieval'.origin)
             /\ Len(retrieval'.origin) = Len(retrieval'.context)
             /\ InStageOrder(retrieval'.origin)]_vars
C16_Witness ==
    /\ Retrieved
    /\ request.is_repo_context
    /\ {retrieval.origin[i] : i \in 1..Len(retrieval.origin)}
           = {Priority[n] : n \in 2..Len(Priority)}

-----------------------------------------------------------------------------
(* Properties of two ingestions at a time, stated where both have ended.   *)
-----------------------------------------------------------------------------
\* What a graph holds, whatever the order of creation: its nodes by label,
\* name, file_path and path, how many they are, and its edges by the nodes
\* they join and their type.
Content(g) ==
    [nodes |-> {NodeKey(g.nodes[i]) : i \in 1..Len(g.nodes)},
     count |-> Len(g.nodes),
     edges |-> {<<NodeKey(g.nodes[g.edges[i].from]), g.edges[i].type,
                  NodeKey(g.nodes[g.edges[i].to])>> : i \in 1..Len(g.edges)}]

\* The store after the record of the run a, then the record of the run b,
\* were ingested one after the other into the empty store.
Sequential(a, b) ==
    ingest_data_to_neo4j(b.record,
        ingest_data_to_neo4j(a.record, EmptyGraph, a.embeds).graph,
        b.embeds).graph

BothDone == \A w \in Workers : workers[w].at = "done"

\* C17: when two ingestions of records of different files have run at the
\* same time, however their queries interleaved, the store holds the nodes
\* and edges it holds after the two records were ingested one after the
\* other, in the one order and in the other.
C17_ConcurrentAsSequential ==
    BothDone /\ workers[1].record.filename # workers[2].record.filename
    => /\ Content(store) = Content(Sequential(workers[1], workers[2]))
       /\ Content(store) = Content(Sequential(workers[2], workers[1]))

-----------------------------------------------------------------------------
(* Properties of the file entity and of the defines relationships in what  *)
(* extract_with_regex returns.                                             *)
-----------------------------------------------------------------------------
\* The positions of the entities of the type in what was returned.
EntitiesOfType(out, type) ==
    {i \in 1..Len(out.entities) : out.entities[i].entity_type = type}

\* The first entity stands for the file: it has the base name and the path
\* of the file, and its properties are path, language and line_count.
FileEntityFirst(out, path) ==
    /\ Len(out.entities) >= 1
    /\ out.entities[1].name = Basename(path)
    /\ out.entities[1].file_path = path
    /\ Len(out.entities[1].properties.dict) = 3
    /\ DictKeys(out.entities[1].properties.dict) = {"path", "language", "line_count"}

\* C19: for every content, language and file path, extract_with_regex
\* returns exactly one entity of type source_file, it stands for the file,
\* it is the first entity returned, and its properties are exactly path,
\* language and line_count.
C19_OneSourceFileEntityFirst ==
    call.op = "extract_with_regex" =>
        /\ ~extracted.raised
        /\ FileEntityFirst(extracted, call.file_path)
        /\ EntitiesOfType(extracted, "source_file") = {1}

\* The types of the entities that stand for an import or an include.
ImportEntityTypes ==
    {"import", "from_import", "system_header", "project_header"} \cup IncludeTypes

\* The relationships of the type from the file entity to the i-th entity.
FromFileTo(out, type, i) ==
    SelectSeq(out.relationships,
              LAMBDA r : /\ r.relationship_type = type
                         /\ r.source = out.entities[1].name
                         /\ r.target = out.entities[i].name)

\* C20: in what extract_with_regex returns, every entity that is neither
\* the file entity nor an import or include entity, the database_table
\* entities of the second pass among them, is the target of a defines
\* relationship from the file entity; no import or include entity is, and
\* it is the target of an imports relationship from the file entity.
C20_DefinesForAllButImports ==
    call.op = "extract_with_regex" /\ ~extracted.raised =>
        \A i \in 2..Len(extracted.entities) :
            IF extracted.entities[i].entity_type \in ImportEntityTypes
            THEN /\ FromFileTo(extracted, "defines", i) = <<>>
                 /\ FromFileTo(extracted, "imports", i) # <<>>
            ELSE FromFileTo(extracted, "defines", i) # <<>>

-----------------------------------------------------------------------------
(* Properties of the nodes and edges of the store after any ingestions.    *)
-----------------------------------------------------------------------------
\* The entity nodes of a graph: those written with a file_path.
IsEntityNode(n) == DictHas(n.props, "file_path")

\* C21: after any ingestions no two entity nodes of the graph have the same
\* name and the same file_path, also where a record holds two entities of
\* one name and file_path and of different entity_type.
C21_EntityNodesKeyedByNameAndPath ==
    \A i, j \in 1..Len(graph.nodes) :
        /\ Sequence
        /\ i # j
        /\ IsEntityNode(graph.nodes[i])
        /\ IsEntityNode(graph.nodes[j])
        /\ DictGet(graph.nodes[i].props, "file_path", VNull)
               = DictGet(graph.nodes[j].props, "file_path", VNull)
        => DictGet(graph.nodes[i].props, "name", VNull)
               # DictGet(graph.nodes[j].props, "name", VNull)


\* The file node of the record rec in g: the node of its path that is no
\* entity node.
FileNodes(g, rec) ==
    {i \in 1..Len(g.nodes) :
        /\ DictGet(g.nodes[i].props, "path", VNull) = TextValue(rec.filename)
        /\ ~IsEntityNode(g.nodes[i])}
IsPlaceholder(n) == DictGet(n.props, "is_placeholder", VNull) = VBool(TRUE)
ImportsEdge(g, rec, to) ==
    \E k \in 1..Len(g.edges) :
        /\ g.edges[k].type = "IMPORTS"
        /\ g.edges[k].from \in FileNodes(g, rec)
        /\ g.edges[k].to = to

\* C22: after the ingestion of a record, every import entity of it has an
\* IMPORTS edge from the node of the importing file, to a node whose name is
\* the import name or whose path ends with it; where the edge leads to a
\* placeholder, the placeholder is labelled StandardLibrary for an import
\* with is_standard_library true and ExternalModule otherwise. This for a
\* first importing file and for those that come after it.
C22_EveryImportHasItsEdge ==
    phase \in {"once", "twice"} /\ Sequence /\ record.filename \notin {None, ""}
    => \A i \in 1..Len(ImportEntities(record.entities)) :
           With(ImportEntities(record.entities)[i],
                LAMBDA e :
                    \E n \in LookupRows(graph, e.name) :
                        /\ ImportsEdge(graph, record, n)
                        /\ IsPlaceholder(graph.nodes[n])
                           => graph.nodes[n].label \in
                                  {"StandardLibrary", "ExternalModule"})


\* The placeholders of a graph that have the name.
PlaceholdersNamed(g, name) ==
    {i \in 1..Len(g.nodes) :
        /\ IsPlaceholder(g.nodes[i])
        /\ DictGet(g.nodes[i].props, "name", VNull) = name}
\* The nodes of g an import of the name of the node n resolves to.
Resolving(g, n) ==
    With(DictGet(n.props, "name", VNull),
         LAMBDA name : IF IsStr(name) THEN LookupRows(g, name.str) ELSE {})

\* C23: in every graph that ingestions one after another give, a name has
\* at most one placeholder; a placeholder an ingestion created has a name
\* that resolved to no node of the graph before the ingestion; and an
\* ingestion that finds the placeholder of a name leaves that one and
\* creates no other.
C23_PlaceholdersLazyAndReused ==
    [][\A n \in 1..Len(graph'.nodes) :
           Sequence' /\ IsPlaceholder(graph'.nodes[n])
           => With(DictGet(graph'.nodes[n].props, "name", VNull),
                   LAMBDA name :
                       /\ PlaceholdersNamed(graph', name) = {n}
                       /\ n > Len(graph.nodes)
                          => Resolving(graph, graph'.nodes[n]) = {}
                       /\ PlaceholdersNamed(graph, name) # {}
                          => PlaceholdersNamed(graph, name) = {n})]_vars

\* A record that imports a name has been ingested into a store that held
\* the placeholder of that name, made for another file.
C23_Witness ==
    /\ phase = "once"
    /\ Sequence
    /\ record.filename \notin {None, ""}
    /\ ImportEntities(record.entities) # <<>>
    /\ \E n \in 1..Len(graph.nodes) :
           /\ IsPlaceholder(graph.nodes[n])
           /\ DictGet(graph.nodes[n].props, "name", VNull)
                  = TextValue(ImportEntities(record.entities)[1].name)
           /\ DictGet(graph.nodes[n].props, "description", VNull)
                  # DictGet(ImportPlaceholder(ImportEntities(record.entities)[1],
                                              record.filename).params,
                            "description", VNull)
           /\ graph.nodes[n].label
                  # ImportPlaceholder(ImportEntities(record.entities)[1],
                                      record.filename).labels[1]


\* The relationships of the record that the loop does not skip, and whether
\* two of them stand for one edge: the same source, target and edge type.
Ingestable(rel) ==
    /\ rel.relationship_type # None
    /\ StrLower(rel.relationship_type) # "imports"
    /\ rel.source \notin {None, ""}
    /\ rel.target \notin {None, ""}
    /\ SanitizedRelType(rel.relationship_type) # ""
SameTriple(a, b) ==
    /\ a.source = b.source
    /\ a.target = b.target
    /\ SanitizedRelType(a.relationship_type) = SanitizedRelType(b.relationship_type)
\* The edges of g that stand for the relationship rel of the file path.
EdgesOf(g, rel, path) ==
    {k \in 1..Len(g.edges) :
        /\ g.edges[k].from \in NodesNamed(g, rel.source, path)
        /\ g.edges[k].to \in NodesNamed(g, rel.target, path)
        /\ g.edges[k].type = SanitizedRelType(rel.relationship_type)}
\* The i-th relationship of rec is the last of its triple in the list.
LastOfTriple(rec, i) ==
    \A j \in (i + 1)..Len(rec.relationships) :
        Ingestable(rec.relationships[j])
            => ~SameTriple(rec.relationships[i], rec.relationships[j])

\* The record rec holds another relationship of the triple of its i-th.
Several(rec, i) ==
    \E j \in 1..Len(rec.relationships) :
        /\ j # i
        /\ Ingestable(rec.relationships[j])
        /\ SameTriple(rec.relationships[i], rec.relationships[j])

\* C24: where the relationships of a record hold several of one source,
\* type and target, and the source and the target are nodes of the file,
\* the ingestion leaves exactly one edge for them, and its context is the
\* context of the last of them in the list; ingesting the record again
\* leaves the one edge, with the context of the last ingestion.
C24_OneEdgePerTripleLastContext ==
    phase \in {"once", "twice"} /\ Sequence /\ record.filename \notin {None, ""}
    => \A i \in 1..Len(record.relationships) :
           With(record.relationships[i],
                LAMBDA rel :
                    /\ Ingestable(rel)
                    /\ Several(record, i)
                    /\ LastOfTriple(record, i)
                    /\ NodesNamed(graph, rel.source, record.filename) # {}
                    /\ NodesNamed(graph, rel.target, record.filename) # {}
                    => /\ Cardinality(EdgesOf(graph, rel, record.filename)) = 1
                       /\ \A k \in EdgesOf(graph, rel, record.filename) :
                              graph.edges[k].context = TextValue(rel.context))


-----------------------------------------------------------------------------
(* Properties of the strategies of the retrieval, one after another.       *)
-----------------------------------------------------------------------------
\* The queries of the strategies that come before the keyword search.
BeforeKeywords ==
    {"vector_operation", "vector_function", "vector_file", "traversal", "path"}

\* C25: where the query of one strategy of retrieve_graph_context fails,
\* the strategies after it still run: after a vector, traversal or path
\* query that failed, for a question that has keywords, the keyword search
\* by name is issued.
C25_FailedStrategyOnlySkipped ==
    Retrieved /\ InGraphContext
    => \A i \in 1..Len(retrieval.answered) :
           /\ retrieval.answered[i].fails
           /\ retrieval.issued[i] \in BeforeKeywords
           /\ keywords(request.query) # <<>>
           => \E j \in (i + 1)..Len(retrieval.issued) :
                  retrieval.issued[j] = "keyword_name"


\* The queries whose rows are hits, and the hits of the retrieval that have
\* a file path, each as the number of its query and of its row.
HitQueries == BeforeKeywords \cup {"keyword_name", "keyword_description"}
HitsInFiles(st) ==
    {<<i, k>> \in (1..Len(st.answered)) \X (1..3) :
        /\ st.issued[i] \in HitQueries
        /\ k <= Len(st.answered[i].rows)
        /\ Truthy(DictGet(st.answered[i].rows[k], "filePath", VNull))}
\* No query of the retrieval failed and no row of it has a null type.
Unbroken(st) ==
    \A i \in 1..Len(st.answered) :
        /\ ~st.answered[i].fails
        /\ st.issued[i] \in HitQueries
           => \A k \in 1..Len(st.answered[i].rows) :
                  IsStr(TypeOf(st.answered[i].rows[k]))

\* C26: the file context covers the file of every hit of the stages before
\* it: where a vector hit, a traversal hit, a path hit or a keyword hit of
\* the retrieval has a file path, the files are asked for, that path among
\* them; so also where the keyword search alone gave hits.
C26_FileContextCoversEveryHit ==
    Retrieved /\ InGraphContext /\ Unbroken(retrieval)
    => \A h \in HitsInFiles(retrieval) :
           /\ \E j \in 1..Len(retrieval.issued) :
                  retrieval.issued[j] = "file_context"
           /\ DictGet(retrieval.answered[h[1]].rows[h[2]], "filePath", VNull)
                  \in file_paths(retrieval.hits)


\* C27: in the retrieval for one file, where the caller passes a context
\* blob that json.loads parses, the context is built from the blob and no
\* query is run on the store, neither that of the entities related to the
\* file nor the vector search in the file.
C27_ParsedBlobShortCircuits ==
    /\ Retrieved
    /\ InFileContext
    /\ request.context \notin {None, ""}
    /\ ContextLoads(request.context).ok
    => retrieval.issued = <<>>


\* The nodes of g that are the entity e of the record rec as it is: of its
\* label, with its name, file_path and description and the repo_id of rec.
NodesOfEntity(g, e, rec) ==
    {n \in EntityNodes(g, e) :
        /\ DictGet(g.nodes[n].props, "description", VNull)
               = TextValue(e.description)
        /\ DictGet(g.nodes[n].props, "repo_id", VNull) = TextValue(rec.repo_id)}

\* C28: the node of an entity has the name, the file_path and the
\* description of the entity and the repo_id of the record, whatever keys
\* the properties of the entity hold, 'name', 'file_path', 'description',
\* 'embedding' and 'repo_id' among them.
C28_NodeIdentityFromEntityFields ==
    /\ phase \in {"once", "twice"}
    /\ Sequence
    /\ PlainEntities(record)
    /\ record.filename \notin {None, ""}
    /\ \A i \in 1..Len(record.entities) : record.entities[i].entity_type # None
    => \A i \in 1..Len(record.entities) :
           With(record.entities[i],
                LAMBDA e :
                    ~IsImport(e) /\ LastOfNode(record, i)
                    => NodesOfEntity(graph, e, record) # {})


\* The traversal query of the retrieval was issued.
Expanded ==
    \E j \in 1..Len(retrieval.issued) : retrieval.issued[j] = "traversal"

\* C29: the id of a vector hit, its name, a hyphen and its file path, is
\* taken apart by the traversal query into the same name and the same file
\* path, so that the expansion starts at the node of the hit; also for a
\* name or a path that holds a hyphen itself.
C29_EntityIdRoundTrip ==
    InGraphContext /\ Expanded
    => \A i \in 1..Len(retrieval.hits) :
           SplitEntityId(entity_ids(retrieval.hits)[i])
               = [name |-> DictGet(retrieval.hits[i], "name", VNull),
                  filePath |-> DictGet(retrieval.hits[i], "filePath", VNull)]


-----------------------------------------------------------------------------
(* Properties of the ingestor and the retrieval service on one store.      *)
-----------------------------------------------------------------------------
\* C30: the file node ingest_data_to_neo4j creates for a record with the
\* repository id R and the path P is selected by the file lookups of the
\* retrieval service: that of the retrieval for the file P of R, that of
\* the operations of the file named as P is, and the listing of the files
\* of R.
C30_IngestedFileIsFound ==
    phase \in {"once", "twice"} /\ Sequence /\ record.filename \notin {None, ""}
    => /\ FileNodes(graph, record) # {}
       /\ \A n \in FileNodes(graph, record) :
              /\ n \in FileOfRetrieval(graph, record.repo_id, record.filename)
              /\ n \in FilesOfOperations(graph, Basename(record.filename))
              /\ n \in get_files(graph, record.repo_id).files

=============================================================================
